---- MODULE Spec2Model ----
(***************************************************************************)
(* Monios browser client (chat, terminal and file-explorer components)     *)
(* together with the per-user session and admission queue of the server.   *)
(* One client component is studied at a time (kind); its sockets are kept  *)
(* in a bounded pool of slots that are recycled once a socket is dead.     *)
(***************************************************************************)
EXTENDS Integers, Sequences, FiniteSets, TLC

\* ---------------------------------------------------------------- bounds
MaxSlots == 2        \* transports alive at the same time
MaxMsgs == 3         \* messages submitted by the channels of SpecServer
MaxSends == 1        \* messages sent by the chat component
MaxUserChanges == 2  \* changes of the userId
MaxInFlight == 1     \* unsolicited frames waiting on one transport
MaxDrops == 1        \* transports lost without the client closing them
MaxInputs == 1       \* keystrokes, resizes, refresh clicks and watcher events
MaxToolEvents == 2   \* tool events the executor emits for one message
MaxSignIns == 2      \* sign-in requests in flight at a time
MaxIds == 2          \* strings generateId() can return

\* ------------------------------------------------------ program constants
MaxQueueSize == 2

Users == {"A", "B"}
Kinds == {"chat", "terminal", "files"}
Slots == 1..MaxSlots
MsgIds == 1..(MaxMsgs + MaxSends)
ForeignIds == {8, 9}  \* messages another client of the user has submitted
AllIds == MsgIds \cup ForeignIds
Stale == 0 - 1       \* a timer id whose timer has fired or was cleared

VARIABLES
  kind,                 \* which component is mounted
  phase,                \* "init" | "mounted" | "unmounted"
  userId, userIdRef, changes,
  drops,                \* transports the network has dropped so far
  socks,                \* slot -> socket (client readyState, server side, frames in flight)
  wsRef,                \* wsRef.current: 0 is null
  timers,               \* pending reconnect timers, named by the slot whose onclose set them
  reconnectTimeoutRef,  \* 0 is null
  connected,            \* wsConnected (chat) / connected (terminal, files)
  error,                \* error state of the component, "" is null
  messages, input, queueStatus, nextId,     \* chat component
  histPending,          \* user -> /chat/history fetches in flight
  connectedToSpriteRef, \* terminal: the sprite has answered connected
  tree, isLoading,      \* file explorer: whose tree is shown ("" is null), loading flag
  retry,                \* file explorer: the 1.5 s get_tree retry timer is pending
  xterm,                \* terminal: what was written to the xterm, in order
  inputs,               \* terminal / file explorer: keystrokes, clicks and watcher events so far
  rejectedSeen,         \* history: ids the chat component got queued{status:"queue_full"} for
  respApplied,          \* history: id -> response events the chat component applied
  reattach,             \* history: id -> 1 once an attached chat socket closed after the id was resolved,
                        \*          2 once a transport was attached after that close
  sessions,             \* server: user -> session
  admitted, started,    \* per user: order of admission / of processing_started
  ended,                \* per message: the terminal events the server emitted for it
  state,                \* AuthProvider: user, accessToken, refreshToken, isAuthenticated, isLoading
  localStorage,         \* the three keys of the auth state
  authPending           \* POST /auth/google requests in flight

idVars == <<kind, phase, userId, userIdRef, changes, drops>>
connVars == <<wsRef, timers, reconnectTimeoutRef>>
uiVars == <<connected, error>>
chatVars == <<messages, input, queueStatus, nextId, histPending>>
paneVars == <<connectedToSpriteRef, tree, isLoading, retry, xterm>>
ghostVars == <<rejectedSeen, respApplied>>
clientVars == <<idVars, connVars, uiVars, chatVars, paneVars, ghostVars>>
serverVars == <<sessions, admitted, started, ended>>
authVars == <<state, localStorage, authPending>>
vars == <<clientVars, socks, serverVars, reattach, authVars, inputs>>

\* ---------------------------------------------------------------- frames
\* one shape for every frame: n is queue_position / queue_remaining / queue_size
\* of the frame kinds that carry one, 0 where the field is absent
Frame(t, i, n, x) == [type |-> t, id |-> i, n |-> n, size |-> 0, max |-> 0, x |-> x]
ConnectFrame(u) == Frame("connect", 0, 0, u)
MessageFrame(m) == Frame("message", m, 0, "")
ConnectedFrame == Frame("connected", 0, 0, "")
StatusFrame(size, proc) == Frame("status", 0, size, IF proc THEN "true" ELSE "false")
QueuedFrame(m, pos) == Frame("queued", m, pos, "queued")
QueueFullFrame(m, size, max) ==
  [Frame("queued", m, 0, "queue_full") EXCEPT !.size = size, !.max = max]
StartedFrame(m, remaining) == Frame("processing_started", m, remaining, "")
ResponseFrame(m) == Frame("response", m, 0, "")
ErrorFrame(m, e) == Frame("error", m, 0, e)
CancelledFrame(m, reason) == Frame("cancelled", m, 0, reason)
\* the k-th tool call of message m; <<m, k>> stands for its tool_use_id
ToolUseFrame(m, k) == Frame("tool_use", m, k, "Bash")
ToolResultFrame(m, k) == Frame("tool_result", m, k, "")
\* terminal channel: raw stdin bytes and the resize control frame
StdinFrame == Frame("stdin", 0, 0, "")
ResizeFrame == Frame("resize", 0, 0, "")
\* files channel
SubscribeFrame == Frame("subscribe", 0, 0, "")
GetTreeFrame == Frame("get_tree", 0, 0, "")
TreeFrame(u) == Frame("tree", 0, 0, u)
FileEventFrame == Frame("file_event", 0, 0, "")
\* terminal channel, outbound: the control frame error{message} and the raw
\* output of the PTY, a text frame; Texts are the shapes of text that
\* onmessage tells apart
BridgeErrorFrame == Frame("error", 0, 0, "Failed to connect to sprite")
Texts == {"ls", "{1..3}", "{\"type\":\"pong\"}", " {\"type\":\"error\"}"}
OutputFrame(x) == Frame("output", 0, 0, x)

\* --------------------------------------------------------------- sockets
\* raw marks the transport of another client: nothing of it is modelled but the
\* frames it sends, and s2c holds the frames of the latest server step only
FreeSock == [st |-> "FREE", srv |-> "none", suser |-> "-", cap |-> "-",
             c2s |-> <<>>, s2c |-> <<>>, first |-> "none", raw |-> FALSE]
NewSock(u) == [FreeSock EXCEPT !.st = "CONNECTING", !.cap = u]

\* a closed socket nothing refers to any more gives its slot back
Normalize(ss, ref, tm) ==
  [s \in Slots |->
     IF ss[s].st = "CLOSED" /\ ss[s].srv \in {"none", "closed"} /\ s \notin tm /\ ref # s
     THEN FreeSock ELSE ss[s]]

FreeSlots(ss) == {s \in Slots : ss[s].st = "FREE"}
Min(S) == CHOOSE x \in S : \A y \in S : x <= y

\* ws.send(frame): queued for the server when OPEN, discarded when CLOSING/CLOSED
Send(ss, s, f) ==
  IF s # 0 /\ ss[s].st = "OPEN"
  THEN [ss EXCEPT ![s].c2s = Append(@, f),
                  ![s].first = IF @ = "none" THEN f.type ELSE @]
  ELSE ss

\* ws.close()
Close(ss, s) ==
  IF s # 0 /\ ss[s].st \in {"CONNECTING", "OPEN"} THEN [ss EXCEPT ![s].st = "CLOSING"] ELSE ss

\* clearTimeout(reconnectTimeoutRef.current)
ClearTimeout(tm, ref) == tm \ {ref}

\* connect() / connectWebSocket(): <<socks, wsRef>> afterwards
WillCreate(ss, ref) == ~(ref # 0 /\ ss[ref].st = "OPEN")
CanConnect(ss, ref, tm) == WillCreate(ss, ref) => FreeSlots(Normalize(ss, 0, tm)) # {}
Connect(ss, ref, tm, u) ==
  IF ~WillCreate(ss, ref) THEN <<ss, ref>>
  ELSE LET n == Normalize(ss, 0, tm)
           s == Min(FreeSlots(n))
       IN <<[n EXCEPT ![s] = NewSock(u)], s>>

\* the timer id left in reconnectTimeoutRef once its timer fired or was cleared
Fired(ref, t) == IF ref = t THEN Stale ELSE ref
Cleared(ref) == IF ref \in Slots THEN Stale ELSE ref

\* ------------------------------------------------------------- server side
\* abort: the executor of the message in flight was signalled to abort;
\* init: the workspace of the user is initialized (monotonic)
\* tools: number of tool events emitted for the message in flight
NoSession == [exists |-> FALSE, queue |-> <<>>, attached |-> {}, idle |-> FALSE,
              abort |-> FALSE, init |-> FALSE, tools |-> 0]
NewSession == [NoSession EXCEPT !.exists = TRUE]

QueuedMsg(m) == [id |-> m, status |-> "queued"]
IsProcessing(q) == \E i \in 1..Len(q) : q[i].status = "processing"
Waiting(q) == {i \in 1..Len(q) : q[i].status = "queued"}
\* 1-based index of queue entry i among the entries still waiting
Position(q, i) == Cardinality({j \in Waiting(q) : j <= i})

AppendAll(sock, fs) == IF sock.raw THEN fs ELSE sock.s2c \o fs
\* deliver frames to every attached channel of the session (a closed transport drops them)
Broadcast(ss, sess, fs) ==
  [s \in Slots |->
     IF s \in sess.attached /\ ss[s].st = "OPEN"
     THEN [ss[s] EXCEPT !.s2c = AppendAll(ss[s], fs)] ELSE ss[s]]
Reply(ss, s, fs) ==
  IF ss[s].st = "OPEN" THEN [ss EXCEPT ![s].s2c = AppendAll(ss[s], fs)] ELSE ss

\* frames re-broadcasting the position of every message still waiting
PositionFrames(q) ==
  LET F[i \in 0..Len(q)] ==
        IF i = 0 THEN <<>>
        ELSE IF q[i].status = "queued"
             THEN Append(F[i - 1], QueuedFrame(q[i].id, Position(q, i)))
             ELSE F[i - 1]
  IN F[Len(q)]

\* getOrCreate(userKey)
GetOrCreateFresh(sn, u) == [sn EXCEPT ![u] = NewSession]
GetOrCreate(sn, u) == IF sn[u].exists THEN sn ELSE [sn EXCEPT ![u] = NewSession]

\* the state every action leaves behind: dead sockets give their slot back,
\* frames nobody will read are dropped
Tidy(ss, ref, tm) ==
  LET n == Normalize(ss, ref, tm)
  IN [s \in Slots |->
        [n[s] EXCEPT !.s2c = IF n[s].st = "OPEN" THEN @ ELSE <<>>,
                     !.c2s = IF n[s].srv \in {"accepted", "attached"} THEN @ ELSE <<>>]]

\* ------------------------------------------------------------ chat client
\* an entry of the messages list. Entries appended by the handlers take their id
\* from generateId() and are never looked up by id: the model gives them id 0,
\* an id different from every message id. content names the message an
\* assistant or system entry is about; hist names the user a history entry
\* was fetched for.
UserMsg(m) == [id |-> m, type |-> "user", status |-> "sending", pos |-> 0, content |-> 0, hist |-> "-",
               tool |-> <<>>]
ListEntry(t, c) == [id |-> 0, type |-> t, status |-> "none", pos |-> 0, content |-> c, hist |-> "-",
                    tool |-> <<>>]
HistEntry(t, u) == [id |-> 0, type |-> t, status |-> "completed", pos |-> 0, content |-> 0, hist |-> u,
                    tool |-> <<>>]
\* the entry of a streamed tool event: tool = <<type, tool_use_id>>
ToolEntry(f) == [ListEntry("tool", 0) EXCEPT !.tool = <<f.type, <<f.id, f.n>>>>]

\* updateMessageStatus(messageId, status, queuePosition)
updateMessageStatusKeepPosition(ms, m, st, pos) ==
  [i \in 1..Len(ms) |-> IF ms[i].id = m THEN [ms[i] EXCEPT !.status = st] ELSE ms[i]]
updateMessageStatus(ms, m, st, pos) ==
  [i \in 1..Len(ms) |-> IF ms[i].id = m THEN [ms[i] EXCEPT !.status = st, !.pos = pos] ELSE ms[i]]

\* addAssistantResponse(messageId, content, undefined): content is the reply to m
addAssistantResponse(ms, m) ==
  Append([i \in 1..Len(ms) |-> IF ms[i].id = m THEN [ms[i] EXCEPT !.status = "completed"] ELSE ms[i]],
         ListEntry("assistant", m))

\* the effect "Reconnect WebSocket and load messages when userId changes"
\* <<socks, wsRef, timers, reconnectTimeoutRef, reset>>; reset tells whether
\* the branch under if (wsRef.current) ran
ChatUserIdEffect(ss, ref, tm, rref, u) ==
  LET tm1 == IF rref # 0 THEN ClearTimeout(tm, rref) ELSE tm
  IN IF ref # 0
     THEN LET c == Connect(Close(ss, ref), 0, tm1, u)
          IN <<c[1], c[2], tm1, 0, TRUE>>
     ELSE <<ss, ref, tm1, 0, FALSE>>
ChatUserIdEffectOk(ss, ref, tm, rref) ==
  ref # 0 => CanConnect(Close(ss, ref), 0, IF rref # 0 THEN ClearTimeout(tm, rref) ELSE tm)

\* mount: the effects run in source order: userIdRef sync, connectWebSocket(),
\* the userId effect, loadChatHistory(userId)
ChatMount ==
  /\ kind = "chat" /\ phase = "init"
  /\ CanConnect(socks, wsRef, timers)
  /\ LET c == Connect(socks, wsRef, timers, userId)
     IN /\ ChatUserIdEffectOk(c[1], c[2], timers, reconnectTimeoutRef)
        /\ LET e == ChatUserIdEffect(c[1], c[2], timers, reconnectTimeoutRef, userId)
           IN /\ socks' = Tidy(e[1], e[2], e[3])
              /\ wsRef' = e[2]
              /\ timers' = e[3]
              /\ reconnectTimeoutRef' = e[4]
              /\ connected' = IF e[5] THEN FALSE ELSE connected
              /\ messages' = IF e[5] THEN <<>> ELSE messages
              /\ histPending' = [histPending EXCEPT ![userId] = @ + (IF e[5] THEN 2 ELSE 1)]
  /\ phase' = "mounted"
  /\ userIdRef' = userId
  /\ UNCHANGED <<paneVars, kind, userId, changes, drops, error, input, queueStatus, nextId, ghostVars,
                 serverVars, reattach, authVars, inputs>>

\* guestId / auth identity changes: userIdRef sync, then the userId effect
ChatChangeUser(u) ==
  /\ kind = "chat" /\ phase = "mounted" /\ u # userId /\ changes < MaxUserChanges
  /\ ChatUserIdEffectOk(socks, wsRef, timers, reconnectTimeoutRef)
  /\ LET e == ChatUserIdEffect(socks, wsRef, timers, reconnectTimeoutRef, u)
     IN /\ socks' = Tidy(e[1], e[2], e[3])
        /\ wsRef' = e[2]
        /\ timers' = e[3]
        /\ reconnectTimeoutRef' = e[4]
        /\ connected' = IF e[5] THEN FALSE ELSE connected
        /\ messages' = IF e[5] THEN <<>> ELSE messages
        /\ histPending' = IF e[5] THEN [histPending EXCEPT ![u] = @ + 1] ELSE histPending
  /\ userId' = u /\ userIdRef' = u /\ changes' = changes + 1
  /\ UNCHANGED <<paneVars, kind, phase, drops, error, input, queueStatus, nextId, ghostVars, serverVars,
                 reattach, authVars, inputs>>

\* cleanup of the init effect on unmount
ChatUnmount ==
  /\ kind = "chat" /\ phase = "mounted"
  /\ LET tm == IF reconnectTimeoutRef # 0 THEN ClearTimeout(timers, reconnectTimeoutRef) ELSE timers
     IN /\ timers' = tm
        /\ reconnectTimeoutRef' = Cleared(reconnectTimeoutRef)
        /\ socks' = Tidy(Close(socks, wsRef), wsRef, tm)
  /\ phase' = "unmounted"
  /\ UNCHANGED <<paneVars, kind, userId, userIdRef, changes, drops, wsRef, uiVars, chatVars, ghostVars,
                 serverVars, reattach, authVars, inputs>>

\* ws.onopen
ChatOnOpenSilent(ss, s) == ss
ChatOnOpen(ss, s) == Send(ss, s, ConnectFrame(userIdRef))
ChatOpen(s) ==
  /\ kind = "chat" /\ phase # "init" /\ socks[s].st = "CONNECTING"
  /\ socks' = Tidy(ChatOnOpen([socks EXCEPT ![s].st = "OPEN", ![s].srv = "accepted"], s),
                   wsRef, timers)
  /\ UNCHANGED <<clientVars, serverVars, reattach, authVars, inputs>>

\* ids whose message the server has resolved (admitted once, in no queue now)
InQueue(m) == \E u \in Users : \E i \in 1..Len(sessions[u].queue) : sessions[u].queue[i].id = m
WasAdmitted(m) == \E u \in Users : \E i \in 1..Len(admitted[u]) : admitted[u][i] = m
Resolved(m) == WasAdmitted(m) /\ ~InQueue(m)

\* a close event the client did not ask for with ws.close()
Dropped(s) == socks[s].st \in {"CONNECTING", "OPEN"}

\* the close event of a socket: ws.onerror when the connection failed, then ws.onclose
ChatClose(s, failed) ==
  /\ kind = "chat" /\ phase # "init" /\ socks[s].st \in {"CONNECTING", "OPEN", "CLOSING"}
  /\ (socks[s].srv = "none") => failed
  /\ Dropped(s) => drops < MaxDrops
  /\ drops' = IF Dropped(s) THEN drops + 1 ELSE drops
  /\ timers' = timers \cup {s}
  /\ reconnectTimeoutRef' = s
  /\ socks' = Tidy([socks EXCEPT ![s].st = "CLOSED"], wsRef, timers')
  /\ connected' = FALSE
  /\ error' = IF failed THEN "Connection error" ELSE error
  /\ reattach' = [m \in AllIds |->
                    IF reattach[m] = 0 /\ Resolved(m) /\ socks[s].srv = "attached" THEN 1
                    ELSE reattach[m]]
  /\ UNCHANGED authVars
  /\ UNCHANGED <<paneVars, kind, phase, userId, userIdRef, changes, wsRef, chatVars, ghostVars,
                 serverVars, inputs>>

\* the reconnect timer set by onclose fires: connectWebSocket()
ChatTimer(t) ==
  /\ kind = "chat" /\ phase # "init" /\ t \in timers
  /\ CanConnect(socks, wsRef, timers \ {t})
  /\ LET c == Connect(socks, wsRef, timers \ {t}, userId)
     IN /\ timers' = timers \ {t}
        /\ wsRef' = c[2]
        /\ socks' = Tidy(c[1], c[2], timers')
  /\ reconnectTimeoutRef' = Fired(reconnectTimeoutRef, t)
  /\ UNCHANGED <<paneVars, idVars, uiVars, chatVars, ghostVars, serverVars, reattach, authVars, inputs>>

Trim(v) == IF v = " " THEN "" ELSE v

\* generateId(): Math.random().toString(36).substring(2, 9), one of finitely
\* many strings and not checked against the ids already in use
generateId == 1..MaxIds

\* the user leaves v in the textarea (onChange) and presses Enter: sendMessage();
\* id is what generateId() returns in it
sendMessage(v, id) ==
  /\ kind = "chat" /\ phase = "mounted"
  /\ IF Trim(v) = ""
     THEN /\ input' = v
          /\ UNCHANGED <<socks, wsRef, error, messages, nextId>>
     ELSE IF wsRef = 0 \/ socks[wsRef].st # "OPEN"
     THEN /\ CanConnect(socks, wsRef, timers)
          /\ LET c == Connect(socks, wsRef, timers, userId)
             IN /\ wsRef' = c[2]
                /\ socks' = Tidy(c[1], c[2], timers)
          /\ error' = "Not connected. Reconnecting..."
          /\ input' = v
          /\ UNCHANGED <<messages, nextId>>
     ELSE /\ nextId <= MaxSends
          /\ input' = ""
          /\ error' = ""
          /\ messages' = Append(messages, UserMsg(id))
          /\ nextId' = nextId + 1
          /\ socks' = Tidy(Send(socks, wsRef, MessageFrame(id)), wsRef, timers)
          /\ UNCHANGED wsRef
  /\ UNCHANGED <<paneVars, idVars, timers, reconnectTimeoutRef, connected, queueStatus, histPending,
                 ghostVars, serverVars, reattach, authVars, inputs>>

\* handleWebSocketMessage, one case per frame type
OnConnected(f) ==
  /\ connected' = TRUE /\ error' = ""
  /\ UNCHANGED <<messages, queueStatus, ghostVars>>

QueuedStatus(f) == IF f.x = "skipped" THEN "cancelled" ELSE "queued"
OnQueued(f) ==
  /\ messages' = IF f.id # 0 THEN updateMessageStatus(messages, f.id, QueuedStatus(f), f.n)
                 ELSE messages
  /\ error' = IF f.id # 0 /\ f.x = "queue_full" THEN "Queue is full" ELSE error
  /\ rejectedSeen' = IF f.id # 0 /\ f.x = "queue_full" THEN rejectedSeen \cup {f.id} ELSE rejectedSeen
  /\ UNCHANGED <<connected, queueStatus, respApplied>>

OnProcessingStarted(f) ==
  /\ messages' = IF f.id # 0 THEN updateMessageStatus(messages, f.id, "processing", 0) ELSE messages
  /\ queueStatus' = IF f.id # 0 THEN [size |-> f.n, processing |-> TRUE] ELSE queueStatus
  /\ UNCHANGED <<connected, error, ghostVars>>

OnResponse(f) ==
  /\ messages' = IF f.id # 0 THEN addAssistantResponse(messages, f.id) ELSE messages
  /\ queueStatus' = IF f.id # 0 THEN [queueStatus EXCEPT !.processing = FALSE] ELSE queueStatus
  /\ respApplied' = IF f.id # 0 THEN [respApplied EXCEPT ![f.id] = @ + 1] ELSE respApplied
  /\ UNCHANGED <<connected, error, rejectedSeen>>

OnErrorAll(f) ==
  /\ messages' = [i \in 1..Len(messages) |->
                    IF messages[i].type = "user" THEN [messages[i] EXCEPT !.status = "error", !.pos = 0]
                    ELSE messages[i]]
  /\ error' = f.x
  /\ queueStatus' = [queueStatus EXCEPT !.processing = FALSE]
  /\ UNCHANGED <<connected, ghostVars>>
OnError(f) ==
  /\ messages' = IF f.id # 0 THEN updateMessageStatus(messages, f.id, "error", 0) ELSE messages
  /\ error' = f.x
  /\ queueStatus' = [queueStatus EXCEPT !.processing = FALSE]
  /\ UNCHANGED <<connected, ghostVars>>

OnToolEvent(f) ==
  /\ messages' = IF f.id # 0 THEN Append(messages, ToolEntry(f)) ELSE messages
  /\ UNCHANGED <<connected, error, queueStatus, ghostVars>>

OnCancelled(f) ==
  /\ messages' = IF f.id # 0
                 THEN Append(updateMessageStatus(messages, f.id, "cancelled", 0),
                             ListEntry("system", f.id))
                 ELSE messages
  /\ queueStatus' = [queueStatus EXCEPT !.processing = FALSE]
  /\ UNCHANGED <<connected, error, ghostVars>>

StatusOfStale(f) == queueStatus
StatusOf(f) == [size |-> f.n, processing |-> (f.x = "true")]
OnStatus(f) ==
  /\ queueStatus' = StatusOf(f)
  /\ UNCHANGED <<connected, error, messages, ghostVars>>

\* ws.onmessage = handleWebSocketMessage: the next frame of an open socket
ChatMessage(s) ==
  /\ kind = "chat" /\ phase # "init" /\ socks[s].st = "OPEN" /\ socks[s].s2c # <<>>
  /\ LET f == Head(socks[s].s2c)
     IN CASE f.type = "connected" -> OnConnected(f)
          [] f.type = "queued" -> OnQueued(f)
          [] f.type = "processing_started" -> OnProcessingStarted(f)
          [] f.type = "response" -> OnResponse(f)
          [] f.type = "error" -> OnError(f)
          [] f.type \in {"tool_use", "tool_result"} -> OnToolEvent(f)
          [] f.type = "cancelled" -> OnCancelled(f)
          [] f.type = "status" -> OnStatus(f)
          [] OTHER -> UNCHANGED <<connected, error, messages, queueStatus, ghostVars>>
  /\ socks' = Tidy([socks EXCEPT ![s].s2c = Tail(@)], wsRef, timers)
  /\ UNCHANGED <<paneVars, idVars, connVars, input, nextId, histPending, serverVars, reattach, authVars, inputs>>

\* the answer of GET /chat/history?user_id=u arrives: loadChatHistory continues
\* after its await; the store holds nothing or one exchange for u
History(u, some) == IF some THEN <<HistEntry("user", u), HistEntry("assistant", u)>> ELSE <<>>
HistoryArrive(u, some) ==
  /\ kind = "chat" /\ histPending[u] > 0
  /\ histPending' = [histPending EXCEPT ![u] = @ - 1]
  /\ messages' = IF History(u, some) # <<>> THEN History(u, some) ELSE messages
  /\ UNCHANGED <<paneVars, idVars, connVars, uiVars, input, queueStatus, nextId, ghostVars, socks,
                 serverVars, reattach, authVars, inputs>>

\* -------------------------------------------------------- terminal client
\* cleanup of the terminal effect: <<socks, timers, reconnectTimeoutRef>>
TermCleanup(ss, ref, tm, rref) ==
  <<Close(ss, ref), IF rref # 0 THEN ClearTimeout(tm, rref) ELSE tm, Cleared(rref)>>

\* mount: the effect creates the xterm and calls connect()
TermMount ==
  /\ kind = "terminal" /\ phase = "init"
  /\ CanConnect(socks, wsRef, timers)
  /\ LET c == Connect(socks, wsRef, timers, userId)
     IN /\ wsRef' = c[2]
        /\ socks' = Tidy(c[1], c[2], timers)
  /\ phase' = "mounted"
  /\ UNCHANGED <<kind, userId, userIdRef, changes, drops, timers, reconnectTimeoutRef, uiVars,
                 chatVars, paneVars, ghostVars, serverVars, reattach, authVars, inputs>>

\* the userId prop changes: connect is a new callback, so the effect is cleaned
\* up and runs again with the new connect
TermChangeUser(u) ==
  /\ kind = "terminal" /\ phase = "mounted" /\ u # userId /\ changes < MaxUserChanges
  /\ LET k == TermCleanup(socks, wsRef, timers, reconnectTimeoutRef)
     IN /\ CanConnect(k[1], wsRef, k[2])
        /\ LET c == Connect(k[1], wsRef, k[2], u)
           IN /\ wsRef' = c[2]
              /\ socks' = Tidy(c[1], c[2], k[2])
        /\ timers' = k[2]
        /\ reconnectTimeoutRef' = k[3]
  /\ userId' = u /\ changes' = changes + 1
  /\ UNCHANGED <<kind, phase, userIdRef, drops, uiVars, chatVars, paneVars, ghostVars,
                 serverVars, reattach, authVars, inputs>>

TermUnmount ==
  /\ kind = "terminal" /\ phase = "mounted"
  /\ LET k == TermCleanup(socks, wsRef, timers, reconnectTimeoutRef)
     IN /\ timers' = k[2]
        /\ reconnectTimeoutRef' = k[3]
        /\ socks' = Tidy(k[1], wsRef, k[2])
  /\ phase' = "unmounted"
  /\ UNCHANGED <<kind, userId, userIdRef, changes, drops, wsRef, uiVars, chatVars, paneVars,
                 ghostVars, serverVars, reattach, authVars, inputs>>

\* ws.onopen: the user id is the one connect() closed over (cap)
TermOnOpen(ss, s) == Send(ss, s, ConnectFrame(ss[s].cap))
TermOpen(s) ==
  /\ kind = "terminal" /\ phase # "init" /\ socks[s].st = "CONNECTING"
  /\ socks' = Tidy(TermOnOpen([socks EXCEPT ![s].st = "OPEN", ![s].srv = "accepted"], s),
                   wsRef, timers)
  /\ UNCHANGED <<clientVars, serverVars, reattach, authVars, inputs>>

\* event.data.startsWith('{'): the control frames are JSON objects
StartsWithBrace(f) == f.type # "output" \/ f.x \in {"{1..3}", "{\"type\":\"pong\"}"}
\* msg.type after JSON.parse(event.data); "throws" when the text is not JSON
ParsedType(f) ==
  IF f.type # "output" THEN f.type
  ELSE CASE f.x = "{\"type\":\"pong\"}" -> "pong"
         [] f.x = " {\"type\":\"error\"}" -> "error"
         [] OTHER -> "throws"
\* how onmessage handles the frame: as the control frame connected, as the
\* control frame error, or as terminal output
ClassifyAnyJson(f) ==
  IF StartsWithBrace(f) /\ ParsedType(f) # "throws" /\ ParsedType(f) # "connected" THEN "error"
  ELSE IF StartsWithBrace(f) /\ ParsedType(f) = "connected" THEN "connected" ELSE "output"
Classify(f) ==
  IF StartsWithBrace(f) /\ ParsedType(f) = "connected" THEN "connected"
  ELSE IF StartsWithBrace(f) /\ ParsedType(f) = "error" THEN "error"
  ELSE "output"
\* xtermRef.current.write: the error text in red, or event.data as it came
WrittenError(f) == [raw |-> FALSE, data |-> f.x]
WrittenRaw(f) == [raw |-> TRUE, data |-> f]

\* ws.onmessage: connected is answered with the initial size on the same
\* socket; error and raw output are written to the xterm
TermMessage(s) ==
  /\ kind = "terminal" /\ phase # "init" /\ socks[s].st = "OPEN" /\ socks[s].s2c # <<>>
  /\ LET f == Head(socks[s].s2c)
         rest == [socks EXCEPT ![s].s2c = Tail(@)]
     IN CASE Classify(f) = "connected" ->
               /\ connectedToSpriteRef' = TRUE
               /\ connected' = TRUE
               /\ socks' = Tidy(Send(rest, s, ResizeFrame), wsRef, timers)
               /\ UNCHANGED xterm
          [] Classify(f) = "error" ->
               /\ xterm' = Append(xterm, WrittenError(f))
               /\ socks' = Tidy(rest, wsRef, timers)
               /\ UNCHANGED <<connectedToSpriteRef, connected>>
          [] OTHER ->
               /\ xterm' = Append(xterm, WrittenRaw(f))
               /\ socks' = Tidy(rest, wsRef, timers)
               /\ UNCHANGED <<connectedToSpriteRef, connected>>
  /\ UNCHANGED <<idVars, connVars, error, chatVars, tree, isLoading, retry, ghostVars,
                 serverVars, reattach, authVars, inputs>>

\* the close event of a socket: ws.onerror only logs, then ws.onclose
TermClose(s) ==
  /\ kind = "terminal" /\ phase # "init" /\ socks[s].st \in {"CONNECTING", "OPEN", "CLOSING"}
  /\ Dropped(s) => drops < MaxDrops
  /\ drops' = IF Dropped(s) THEN drops + 1 ELSE drops
  /\ connected' = FALSE
  /\ connectedToSpriteRef' = FALSE
  /\ wsRef' = 0
  /\ timers' = timers \cup {s}
  /\ reconnectTimeoutRef' = s
  /\ socks' = Tidy([socks EXCEPT ![s].st = "CLOSED"], 0, timers')
  /\ UNCHANGED <<kind, phase, userId, userIdRef, changes, error, chatVars, tree, isLoading, retry,
                 xterm, ghostVars, serverVars, reattach, authVars, inputs>>

\* the reconnect timer set by the onclose of socket t fires: the connect() that
\* created t runs again, with the user id it closed over
TermTimer(t) ==
  /\ kind = "terminal" /\ phase # "init" /\ t \in timers
  /\ CanConnect(socks, wsRef, timers \ {t})
  /\ LET c == Connect(socks, wsRef, timers \ {t}, socks[t].cap)
     IN /\ timers' = timers \ {t}
        /\ wsRef' = c[2]
        /\ socks' = Tidy(c[1], c[2], timers')
  /\ reconnectTimeoutRef' = Fired(reconnectTimeoutRef, t)
  /\ UNCHANGED <<idVars, uiVars, chatVars, paneVars, ghostVars, serverVars, reattach, authVars, inputs>>

\* xterm.onData / xterm.onResize: sent only on an open socket of a connected
\* sprite, dropped otherwise
CanTypeOnce == wsRef # 0 /\ socks[wsRef].st = "OPEN" /\ connectedToSpriteRef /\ socks[wsRef].c2s = <<>>
CanType == wsRef # 0 /\ socks[wsRef].st = "OPEN" /\ connectedToSpriteRef
TermInput(f) ==
  /\ kind = "terminal" /\ phase = "mounted" /\ CanType
  /\ inputs < MaxInputs
  /\ inputs' = inputs + 1
  /\ socks' = Tidy(Send(socks, wsRef, f), wsRef, timers)
  /\ UNCHANGED <<clientVars, serverVars, reattach, authVars>>
onData == TermInput(StdinFrame)
onResize == TermInput(ResizeFrame)

\* --------------------------------------------------- file explorer client
\* the effect "Reconnect when userId changes":
\* <<socks, wsRef, timers, reconnectTimeoutRef, reset>>
FilesUserIdEffect(ss, ref, tm, rref) ==
  LET tm1 == IF rref # 0 THEN ClearTimeout(tm, rref) ELSE tm
  IN IF ref # 0
     THEN LET c == Connect(Close(ss, ref), 0, tm1, userId)
          IN <<c[1], c[2], tm1, 0, TRUE>>
     ELSE <<ss, ref, tm1, 0, FALSE>>
FilesUserIdEffectOk(ss, ref, tm, rref) ==
  ref # 0 => CanConnect(Close(ss, ref), 0, IF rref # 0 THEN ClearTimeout(tm, rref) ELSE tm)

\* mount: userIdRef sync, connect(), the userId effect
FilesMount ==
  /\ kind = "files" /\ phase = "init"
  /\ CanConnect(socks, wsRef, timers)
  /\ LET c == Connect(socks, wsRef, timers, userId)
     IN /\ FilesUserIdEffectOk(c[1], c[2], timers, reconnectTimeoutRef)
        /\ LET e == FilesUserIdEffect(c[1], c[2], timers, reconnectTimeoutRef)
           IN /\ socks' = Tidy(e[1], e[2], e[3])
              /\ wsRef' = e[2]
              /\ timers' = e[3]
              /\ reconnectTimeoutRef' = e[4]
              /\ connected' = IF e[5] THEN FALSE ELSE connected
              /\ tree' = IF e[5] THEN "" ELSE tree
              /\ isLoading' = IF e[5] THEN TRUE ELSE isLoading
  /\ phase' = "mounted"
  /\ userIdRef' = userId
  /\ UNCHANGED <<kind, userId, changes, drops, error, chatVars, connectedToSpriteRef, xterm, retry,
                 ghostVars, serverVars, reattach, authVars, inputs>>

\* the userId prop changes: userIdRef sync, then the userId effect
FilesChangeUser(u) ==
  /\ kind = "files" /\ phase = "mounted" /\ u # userId /\ changes < MaxUserChanges
  /\ FilesUserIdEffectOk(socks, wsRef, timers, reconnectTimeoutRef)
  /\ LET e == FilesUserIdEffect(socks, wsRef, timers, reconnectTimeoutRef)
     IN /\ socks' = Tidy(e[1], e[2], e[3])
        /\ wsRef' = e[2]
        /\ timers' = e[3]
        /\ reconnectTimeoutRef' = e[4]
        /\ connected' = IF e[5] THEN FALSE ELSE connected
        /\ tree' = IF e[5] THEN "" ELSE tree
        /\ isLoading' = IF e[5] THEN TRUE ELSE isLoading
  /\ userId' = u /\ userIdRef' = u /\ changes' = changes + 1
  /\ UNCHANGED <<kind, phase, drops, error, chatVars, connectedToSpriteRef, xterm, retry, ghostVars,
                 serverVars, reattach, authVars, inputs>>

\* cleanup of the mount effect
FilesUnmount ==
  /\ kind = "files" /\ phase = "mounted"
  /\ LET tm == IF reconnectTimeoutRef # 0 THEN ClearTimeout(timers, reconnectTimeoutRef) ELSE timers
     IN /\ timers' = tm
        /\ reconnectTimeoutRef' = Cleared(reconnectTimeoutRef)
        /\ socks' = Tidy(Close(socks, wsRef), wsRef, tm)
  /\ retry' = FALSE
  /\ phase' = "unmounted"
  /\ UNCHANGED <<kind, userId, userIdRef, changes, drops, wsRef, uiVars, chatVars,
                 connectedToSpriteRef, xterm, tree, isLoading, ghostVars, serverVars, reattach, authVars, inputs>>

\* ws.onopen
FilesOnOpen(ss, s) == Send(ss, s, ConnectFrame(userIdRef))
FilesOpen(s) ==
  /\ kind = "files" /\ phase # "init" /\ socks[s].st = "CONNECTING"
  /\ isLoading' = TRUE
  /\ error' = ""
  /\ socks' = Tidy(FilesOnOpen([socks EXCEPT ![s].st = "OPEN", ![s].srv = "accepted"], s),
                   wsRef, timers)
  /\ UNCHANGED <<idVars, connVars, connected, chatVars, connectedToSpriteRef, xterm, tree, retry,
                 ghostVars, serverVars, reattach, authVars, inputs>>

\* handleFileEvent: ask for a fresh tree on the current socket
handleFileEventIdle(ss) == ss
handleFileEvent(ss) == Send(ss, wsRef, GetTreeFrame)

IsNotInitialized(e) == e \in {"Sandbox not initialized", "Not initialized"}

\* ws.onmessage
FilesMessage(s) ==
  /\ kind = "files" /\ phase # "init" /\ socks[s].st = "OPEN" /\ socks[s].s2c # <<>>
  /\ LET f == Head(socks[s].s2c)
         rest == [socks EXCEPT ![s].s2c = Tail(@)]
     IN CASE f.type = "connected" ->
               /\ connected' = TRUE /\ error' = "" /\ isLoading' = TRUE /\ retry' = FALSE
               /\ socks' = Tidy(Send(rest, s, SubscribeFrame), wsRef, timers)
               /\ UNCHANGED tree
          [] f.type = "tree" ->
               /\ tree' = f.x /\ error' = "" /\ isLoading' = FALSE /\ retry' = FALSE
               /\ socks' = Tidy(rest, wsRef, timers)
               /\ UNCHANGED connected
          [] f.type = "file_event" ->
               /\ socks' = Tidy(handleFileEvent(rest), wsRef, timers)
               /\ UNCHANGED <<connected, error, tree, isLoading, retry>>
          [] f.type = "error" ->
               /\ error' = IF IsNotInitialized(f.x) THEN "Not initialized" ELSE f.x
               /\ isLoading' = FALSE
               /\ retry' = IF IsNotInitialized(f.x) THEN TRUE ELSE retry
               /\ socks' = Tidy(rest, wsRef, timers)
               /\ UNCHANGED <<connected, tree>>
          [] OTHER ->
               /\ socks' = Tidy(rest, wsRef, timers)
               /\ UNCHANGED <<connected, error, tree, isLoading, retry>>
  /\ UNCHANGED <<idVars, connVars, chatVars, connectedToSpriteRef, xterm, ghostVars, serverVars, reattach, authVars, inputs>>

\* the close event of a socket: ws.onerror when the connection failed, then ws.onclose
FilesClose(s, failed) ==
  /\ kind = "files" /\ phase # "init" /\ socks[s].st \in {"CONNECTING", "OPEN", "CLOSING"}
  /\ (socks[s].srv = "none") => failed
  /\ Dropped(s) => drops < MaxDrops
  /\ drops' = IF Dropped(s) THEN drops + 1 ELSE drops
  /\ error' = IF failed THEN "Connection error" ELSE error
  /\ connected' = FALSE
  /\ wsRef' = 0
  /\ isLoading' = TRUE
  /\ retry' = FALSE
  /\ timers' = timers \cup {s}
  /\ reconnectTimeoutRef' = s
  /\ socks' = Tidy([socks EXCEPT ![s].st = "CLOSED"], 0, timers')
  /\ UNCHANGED <<kind, phase, userId, userIdRef, changes, chatVars, connectedToSpriteRef, xterm, tree,
                 ghostVars, serverVars, reattach, authVars, inputs>>

\* the reconnect timer fires: connect()
FilesTimer(t) ==
  /\ kind = "files" /\ phase # "init" /\ t \in timers
  /\ CanConnect(socks, wsRef, timers \ {t})
  /\ LET c == Connect(socks, wsRef, timers \ {t}, userId)
     IN /\ timers' = timers \ {t}
        /\ wsRef' = c[2]
        /\ socks' = Tidy(c[1], c[2], timers')
  /\ reconnectTimeoutRef' = Fired(reconnectTimeoutRef, t)
  /\ UNCHANGED <<idVars, uiVars, chatVars, paneVars, ghostVars, serverVars, reattach, authVars, inputs>>

\* the 1.5 s retry timer set by a "not initialized" error fires
FilesRetryIdle ==
  /\ kind = "files" /\ retry
  /\ retry' = FALSE
  /\ UNCHANGED <<idVars, connVars, uiVars, chatVars, connectedToSpriteRef, xterm, tree, isLoading,
                 ghostVars, socks, serverVars, reattach, authVars, inputs>>
FilesRetry ==
  /\ kind = "files" /\ retry
  /\ retry' = FALSE
  /\ IF wsRef # 0 /\ socks[wsRef].st = "OPEN"
     THEN /\ isLoading' = TRUE
          /\ socks' = Tidy(Send(socks, wsRef, GetTreeFrame), wsRef, timers)
     ELSE UNCHANGED <<isLoading, socks>>
  /\ UNCHANGED <<idVars, connVars, uiVars, chatVars, connectedToSpriteRef, xterm, tree, ghostVars,
                 serverVars, reattach, authVars, inputs>>

\* the refresh button / the monios:file-refresh event, on an open socket
handleRefresh ==
  /\ kind = "files" /\ phase = "mounted"
  /\ wsRef # 0 /\ socks[wsRef].st = "OPEN"
  /\ inputs < MaxInputs
  /\ inputs' = inputs + 1
  /\ isLoading' = TRUE
  /\ error' = ""
  /\ socks' = Tidy(Send(socks, wsRef, GetTreeFrame), wsRef, timers)
  /\ UNCHANGED <<idVars, connVars, connected, chatVars, connectedToSpriteRef, xterm, tree, retry,
                 ghostVars, serverVars, reattach, authVars>>

\* ------------------------------------------------- server: channel multiplexer
\* frames answering a successful handshake
HandshakeFrames(sess) ==
  IF kind = "chat"
  THEN <<ConnectedFrame, StatusFrame(Len(sess.queue), IsProcessing(sess.queue))>>
  ELSE <<ConnectedFrame>>

\* connect envelope on a transport that is not attached yet
Attach(s, u) ==
  LET sn == GetOrCreate(sessions, u)
  IN /\ sessions' = [sn EXCEPT ![u].attached = @ \cup {s}]
     /\ socks' = Tidy(Reply([socks EXCEPT ![s].c2s = Tail(@), ![s].srv = "attached", ![s].suser = u],
                            s, HandshakeFrames(sn[u])), wsRef, timers)
     /\ reattach' = [m \in AllIds |-> IF reattach[m] = 1 THEN 2 ELSE reattach[m]]
     /\ UNCHANGED authVars
     /\ UNCHANGED <<admitted, started, ended, inputs>>

\* any other frame before the handshake: error event, transport not attached
RejectEarly(s) ==
  /\ socks' = Tidy(Reply([socks EXCEPT ![s].c2s = Tail(@)], s, <<ErrorFrame(0, "Not connected")>>),
                   wsRef, timers)
  /\ UNCHANGED <<paneVars, serverVars, reattach, authVars, inputs>>

\* submit(message) on the admission queue of user u, received on transport s
IsFullOffByOne(q) == Len(q) > MaxQueueSize
IsFullWaitingOnly(q) == Cardinality(Waiting(q)) >= MaxQueueSize
IsFull(q) == Len(q) >= MaxQueueSize
Submit(s, u, m) ==
  LET q == sessions[u].queue
      ss == [socks EXCEPT ![s].c2s = Tail(@)]
  IN IF IsFull(q)
     THEN /\ socks' = Tidy(Reply(ss, s, <<QueueFullFrame(m, Len(q), MaxQueueSize)>>), wsRef, timers)
          /\ UNCHANGED serverVars
     ELSE LET q2 == Append(q, QueuedMsg(m))
          IN /\ sessions' = [sessions EXCEPT ![u].queue = q2]
             /\ admitted' = [admitted EXCEPT ![u] = Append(@, m)]
             /\ socks' = Tidy(Broadcast(ss, sessions[u], <<QueuedFrame(m, Position(q2, Len(q2)))>>),
                              wsRef, timers)
             /\ UNCHANGED <<started, ended>>

\* the workspace of a user becomes initialized
InitWorkspace(u) ==
  /\ kind = "files" /\ sessions[u].exists /\ ~sessions[u].init
  /\ sessions' = [sessions EXCEPT ![u].init = TRUE]
  /\ UNCHANGED <<clientVars, socks, admitted, started, ended, reattach, authVars, inputs>>

\* files channel: subscribe and get_tree are answered with the tree of the
\* user's workspace, or with a retryable error while it is not initialized
ServeTree(s) ==
  /\ LET ready == sessions[socks[s].suser].exists /\ sessions[socks[s].suser].init
     IN socks' = Tidy(Reply([socks EXCEPT ![s].c2s = Tail(@)], s,
                            <<IF ready THEN TreeFrame(socks[s].suser)
                              ELSE ErrorFrame(0, "Sandbox not initialized")>>),
                      wsRef, timers)
  /\ UNCHANGED <<serverVars, reattach, authVars, inputs>>

\* the file watcher reports a change of the workspace to an attached transport
SrvFileEvent(s) ==
  /\ kind = "files" /\ socks[s].srv = "attached" /\ socks[s].st = "OPEN"
  /\ inputs < MaxInputs
  /\ inputs' = inputs + 1
  /\ socks' = Tidy(Reply(socks, s, <<FileEventFrame>>), wsRef, timers)
  /\ UNCHANGED <<clientVars, serverVars, reattach, authVars>>

\* the terminal bridge forwards output of the PTY, or reports an error
SrvTermFrame(s, f) ==
  /\ kind = "terminal" /\ socks[s].srv = "attached" /\ socks[s].st = "OPEN"
  /\ inputs < MaxInputs
  /\ inputs' = inputs + 1
  /\ socks' = Tidy(Reply(socks, s, <<f>>), wsRef, timers)
  /\ UNCHANGED <<clientVars, serverVars, reattach, authVars>>

\* the files adapter reports a failure that is not the initialization error
SrvFilesError(s) ==
  /\ kind = "files" /\ socks[s].srv = "attached" /\ socks[s].st = "OPEN"
  /\ inputs < MaxInputs
  /\ inputs' = inputs + 1
  /\ socks' = Tidy(Reply(socks, s, <<ErrorFrame(0, "Failed to list files")>>), wsRef, timers)
  /\ UNCHANGED <<clientVars, serverVars, reattach, authVars>>

\* the server reads the next frame of a transport
SrvRecv(s) ==
  /\ socks[s].srv \in {"accepted", "attached"} /\ socks[s].c2s # <<>>
  /\ LET f == Head(socks[s].c2s)
     IN IF socks[s].srv = "accepted"
        THEN IF f.type = "connect" THEN Attach(s, f.x) ELSE RejectEarly(s)
        ELSE IF kind = "chat" /\ f.type = "message" /\ sessions[socks[s].suser].exists
             THEN Submit(s, socks[s].suser, f.id) /\ UNCHANGED <<reattach, authVars, inputs>>
             ELSE IF kind = "files" /\ f.type \in {"subscribe", "get_tree"}
             THEN ServeTree(s)
             ELSE /\ socks' = Tidy([socks EXCEPT ![s].c2s = Tail(@)], wsRef, timers)
                  /\ UNCHANGED <<paneVars, serverVars, reattach, authVars, inputs>>
  /\ UNCHANGED clientVars

\* detach(session, channel): the server learns that the transport is gone
Detach(sn, s, u) ==
  IF sn[u].exists /\ s \in sn[u].attached
  THEN [sn EXCEPT ![u].attached = @ \ {s}, ![u].idle = IF sn[u].attached = {s} THEN TRUE ELSE @]
  ELSE sn
SrvDetach(s) ==
  /\ socks[s].srv \in {"accepted", "attached"} /\ socks[s].st \in {"CLOSING", "CLOSED"}
  /\ sessions' = IF socks[s].srv = "attached" THEN Detach(sessions, s, socks[s].suser) ELSE sessions
  /\ socks' = Tidy([socks EXCEPT ![s].srv = "closed"], wsRef, timers)
  /\ UNCHANGED <<clientVars, admitted, started, ended, reattach, authVars, inputs>>

\* evictIfIdle(session): the idle-eviction timer of a session fires
EvictUnconditionally(sess) == NoSession
Evict(sess) == IF sess.attached = {} THEN NoSession ELSE [sess EXCEPT !.idle = FALSE]
EvictIfIdle(u) ==
  /\ sessions[u].exists /\ sessions[u].idle
  /\ sessions' = [sessions EXCEPT ![u] = Evict(@)]
  /\ UNCHANGED <<clientVars, socks, admitted, started, ended, reattach, authVars, inputs>>

\* ---------------------------------------------------- server: admission queue
\* the next waiting message starts processing when nothing is in flight
CanStartWhileBusy(q) == Waiting(q) # {}
CanStart(q) == Waiting(q) # {} /\ ~IsProcessing(q)
Max(S) == CHOOSE x \in S : \A y \in S : x >= y
NextToStartLifo(q) == Max(Waiting(q))
NextToStart(q) == Min(Waiting(q))
StartProcessing(u) ==
  /\ sessions[u].exists /\ CanStart(sessions[u].queue)
  /\ LET i == NextToStart(sessions[u].queue)
         q == [sessions[u].queue EXCEPT ![i].status = "processing"]
     IN /\ sessions' = [sessions EXCEPT ![u].queue = q]
        /\ started' = [started EXCEPT ![u] = Append(@, q[i].id)]
        /\ socks' = Tidy(Broadcast(socks, sessions[u],
                                   <<StartedFrame(q[i].id, Cardinality(Waiting(q)))>> \o PositionFrames(q)),
                         wsRef, timers)
  /\ UNCHANGED <<clientVars, admitted, ended, reattach, authVars, inputs>>

\* the executor resolves the message in flight: completed (ok) or error; an
\* abort signalled too late is dropped with it
Without(q, m) == SelectSeq(q, LAMBDA e : e.id # m)
InFlight(q) == q[CHOOSE i \in 1..Len(q) : q[i].status = "processing"].id
FinishedKeepsAbort(sess, m) == [sess EXCEPT !.queue = Without(@, m), !.tools = 0]
Finished(sess, m) == [sess EXCEPT !.queue = Without(@, m), !.abort = FALSE, !.tools = 0]
Resolve(u, ok) ==
  /\ sessions[u].exists /\ IsProcessing(sessions[u].queue)
  /\ LET m == InFlight(sessions[u].queue)
     IN /\ sessions' = [sessions EXCEPT ![u] = Finished(@, m)]
        /\ ended' = [ended EXCEPT ![m] = @ \cup {IF ok THEN "completed" ELSE "error"}]
        /\ socks' = Tidy(Broadcast(socks, sessions[u],
                                   <<IF ok THEN ResponseFrame(m) ELSE ErrorFrame(m, "Execution failed")>>),
                         wsRef, timers)
  /\ UNCHANGED <<clientVars, admitted, started, reattach, authVars, inputs>>

\* the executor reports the next tool event of the message in flight: the
\* tool_use of a call, then its tool_result, re-emitted in the order produced
ToolFrame(m, n) == IF n % 2 = 1 THEN ToolUseFrame(m, (n + 1) \div 2) ELSE ToolResultFrame(m, n \div 2)
ToolEvent(u) ==
  /\ sessions[u].exists /\ IsProcessing(sessions[u].queue) /\ sessions[u].tools < MaxToolEvents
  /\ sessions' = [sessions EXCEPT ![u].tools = @ + 1]
  /\ socks' = Tidy(Broadcast(socks, sessions[u],
                             <<ToolFrame(InFlight(sessions[u].queue), sessions[u].tools + 1)>>),
                   wsRef, timers)
  /\ UNCHANGED <<clientVars, admitted, started, ended, reattach, authVars, inputs>>

\* cancel(messageId) on a message still waiting: it leaves the queue with
\* status cancelled, and every message still waiting is sent its new position
CancelKeepsPositions(q) == <<>>
CancelPositions(q) == PositionFrames(q)
CancelQueued(u, m) ==
  /\ sessions[u].exists /\ \E i \in Waiting(sessions[u].queue) : sessions[u].queue[i].id = m
  /\ LET q == Without(sessions[u].queue, m)
     IN /\ sessions' = [sessions EXCEPT ![u].queue = q]
        /\ ended' = [ended EXCEPT ![m] = @ \cup {"cancelled"}]
        /\ socks' = Tidy(Broadcast(socks, sessions[u],
                                   <<CancelledFrame(m, "cancelled")>> \o CancelPositions(q)),
                         wsRef, timers)
  /\ UNCHANGED <<clientVars, admitted, started, reattach, authVars, inputs>>

\* cancel(messageId) on the message in flight: the executor is signalled to
\* abort; the abort is cooperative and lands later, if the job has not
\* finished before
CancelProcessing(u) ==
  /\ sessions[u].exists /\ IsProcessing(sessions[u].queue) /\ ~sessions[u].abort
  /\ sessions' = [sessions EXCEPT ![u].abort = TRUE]
  /\ UNCHANGED <<clientVars, socks, admitted, started, ended, reattach, authVars, inputs>>

\* the abort lands: the message in flight ends cancelled
AbortPending(sess) == sess.abort
AbortLands(u) ==
  /\ sessions[u].exists /\ IsProcessing(sessions[u].queue) /\ AbortPending(sessions[u])
  /\ LET m == InFlight(sessions[u].queue)
     IN /\ sessions' = [sessions EXCEPT ![u] = Finished(@, m)]
        /\ ended' = [ended EXCEPT ![m] = @ \cup {"cancelled"}]
        /\ socks' = Tidy(Broadcast(socks, sessions[u], <<CancelledFrame(m, "cancelled")>>),
                         wsRef, timers)
  /\ UNCHANGED <<clientVars, admitted, started, reattach, authVars, inputs>>

\* ------------------------------------------- channels of other clients (chat)
\* a transport is established
ChanOpen(s) ==
  /\ kind = "chat" /\ phase = "init" /\ socks[s].st = "FREE"
  /\ socks' = [socks EXCEPT ![s] = [FreeSock EXCEPT !.st = "OPEN", !.srv = "accepted", !.raw = TRUE]]
  /\ UNCHANGED <<clientVars, serverVars, reattach, authVars, inputs>>

\* inbound frames of the chat channel: connect{user_id}, message{message_id}
ChanConnect(s, u) ==
  /\ kind = "chat" /\ phase = "init" /\ socks[s].st = "OPEN" /\ Len(socks[s].c2s) < MaxInFlight
  /\ socks[s].first = "none" \/ socks[s].srv = "accepted"
  /\ socks' = Tidy(Send(socks, s, ConnectFrame(u)), wsRef, timers)
  /\ UNCHANGED <<clientVars, serverVars, reattach, authVars, inputs>>

ChanMessage(s) ==
  /\ kind = "chat" /\ phase = "init" /\ socks[s].st = "OPEN" /\ Len(socks[s].c2s) < MaxInFlight
  /\ nextId <= MaxMsgs
  /\ socks' = Tidy(Send(socks, s, MessageFrame(nextId)), wsRef, timers)
  /\ nextId' = nextId + 1
  /\ UNCHANGED <<paneVars, idVars, connVars, uiVars, messages, input, queueStatus, histPending, ghostVars,
                 serverVars, reattach, authVars, inputs>>

\* the transport closes
ChanClose(s) ==
  /\ kind = "chat" /\ phase = "init" /\ socks[s].st = "OPEN"
  /\ socks' = Tidy([socks EXCEPT ![s].st = "CLOSED"], wsRef, timers)
  /\ UNCHANGED <<clientVars, serverVars, reattach, authVars, inputs>>

\* ------------------------------------------------------------ specifications
\* ------------------------------------------------------------ AuthProvider
Null == "null"
AuthUsers == {"u1", "u2"}
Tokens == {"t1", "t2"}
\* JSON.stringify(user) and JSON.parse(text): text that is no JSON throws
Stringify(u) == IF u = "u1" THEN "{id:u1}" ELSE "{id:u2}"
Corrupt == "{id:"
Parses(x) == \E u \in AuthUsers : x = Stringify(u)
Parse(x) == CHOOSE u \in AuthUsers : x = Stringify(u)
EmptyStorage == [user |-> Null, access |-> Null, refresh |-> Null]
StoredUsers == {Null, Corrupt} \cup {Stringify(u) : u \in AuthUsers}
Storages == [user : StoredUsers, access : {Null} \cup Tokens, refresh : {Null} \cup Tokens]
SignedOutState ==
  [user |-> Null, accessToken |-> Null, refreshToken |-> Null, isAuthenticated |-> FALSE,
   isLoading |-> FALSE]
SignedIn(u, a, r) ==
  [user |-> u, accessToken |-> a, refreshToken |-> r, isAuthenticated |-> TRUE, isLoading |-> FALSE]
\* the initializer of useState<AuthState>: the state restored from storage
RestoreLoose(ls) ==
  IF ls.user # Null /\ Parses(ls.user)
  THEN SignedIn(Parse(ls.user), ls.access, ls.refresh)
  ELSE SignedOutState
Restore(ls) ==
  IF ls.user # Null /\ ls.access # Null /\ Parses(ls.user)
  THEN SignedIn(Parse(ls.user), ls.access, ls.refresh)
  ELSE SignedOutState
\* the same initializer removes the three keys when the saved user does not parse
StorageAfterRestore(ls) ==
  IF ls.user # Null /\ ls.access # Null /\ ~Parses(ls.user) THEN EmptyStorage ELSE ls

\* handleGoogleCallback up to its first await: isLoading, then POST /auth/google
handleGoogleCallback ==
  /\ kind = "auth" /\ authPending < MaxSignIns
  /\ state' = [state EXCEPT !.isLoading = TRUE]
  /\ authPending' = authPending + 1
  /\ UNCHANGED <<clientVars, socks, serverVars, reattach, inputs, localStorage>>

\* handleGoogleCallback after its awaits: the backend answered ok with user u
\* and tokens a, r, or the request failed
AuthAnswer(ok, u, a, r) ==
  /\ kind = "auth" /\ authPending > 0
  /\ authPending' = authPending - 1
  /\ IF ok
     THEN /\ localStorage' = [user |-> Stringify(u), access |-> a, refresh |-> r]
          /\ state' = SignedIn(u, a, r)
     ELSE /\ state' = [state EXCEPT !.isLoading = FALSE]
          /\ UNCHANGED localStorage
  /\ UNCHANGED <<clientVars, socks, serverVars, reattach, inputs>>

signOut ==
  /\ kind = "auth"
  /\ localStorage' = EmptyStorage
  /\ state' = SignedOutState
  /\ UNCHANGED <<clientVars, socks, serverVars, reattach, inputs, authPending>>

\* ------------------------------------------------------------ initial states
InitComponents ==
  /\ phase = "init"
  /\ userId = "A" /\ userIdRef = "A"
  /\ socks = [s \in Slots |-> FreeSock]
  /\ wsRef = 0 /\ timers = {} /\ reconnectTimeoutRef = 0
  /\ connected = FALSE /\ error = ""
  /\ messages = <<>> /\ input = "" /\ queueStatus = [size |-> 0, processing |-> FALSE]
  /\ histPending = [u \in Users |-> 0]
  /\ connectedToSpriteRef = FALSE /\ tree = "" /\ isLoading = TRUE /\ retry = FALSE
  /\ xterm = <<>>
  /\ rejectedSeen = {} /\ respApplied = [m \in AllIds |-> 0] /\ reattach = [m \in AllIds |-> 0]

InitClient ==
  /\ InitComponents
  /\ state = Restore(EmptyStorage) /\ localStorage = EmptyStorage /\ authPending = 0

NoSessions ==
  /\ sessions = [u \in Users |-> NoSession]
  /\ admitted = [u \in Users |-> <<>>] /\ started = [u \in Users |-> <<>>]
  /\ ended = [m \in AllIds |-> {}]

\* what another client of user A leaves behind when it submits two messages
\* and goes away: a session at capacity, one message in flight, no channel
BusySessions ==
  /\ sessions = [u \in Users |->
                   IF u = "A"
                   THEN [exists |-> TRUE, attached |-> {}, idle |-> TRUE,
                         abort |-> FALSE, init |-> TRUE, tools |-> 0,
                         queue |-> <<[id |-> 8, status |-> "processing"], QueuedMsg(9)>>]
                   ELSE NoSession]
  /\ admitted = [u \in Users |-> IF u = "A" THEN <<8, 9>> ELSE <<>>]
  /\ started = [u \in Users |-> IF u = "A" THEN <<8>> ELSE <<>>]
  /\ ended = [m \in AllIds |-> {}]

\* the server and the chat channels of any clients
InitServer ==
  /\ InitClient /\ kind = "chat" /\ changes = 0 /\ drops = 0 /\ nextId = 1 /\ inputs = 0
  /\ NoSessions

NextServer ==
  \/ \E s \in Slots : ChanOpen(s)
  \/ \E s \in Slots : ChanConnect(s, userId)
  \/ \E s \in Slots : ChanMessage(s)
  \/ \E s \in Slots : ChanClose(s)
  \/ \E s \in Slots : SrvRecv(s)
  \/ \E s \in Slots : SrvDetach(s)
  \/ \E u \in Users : EvictIfIdle(u)
  \/ \E u \in Users : StartProcessing(u)
  \/ \E u \in Users, ok \in BOOLEAN : Resolve(u, ok)

SpecServer == InitServer /\ [][NextServer]_vars

\* the server with cancellation: any message of a session may be cancelled
NextCancel ==
  \/ NextServer
  \/ \E u \in Users, m \in MsgIds : CancelQueued(u, m)
  \/ \E u \in Users : CancelProcessing(u)
  \/ \E u \in Users : AbortLands(u)

SpecCancel == InitServer /\ [][NextCancel]_vars

\* the chat component on a reliable network: it submits while the server is
\* idle or busy for user A
InitChat ==
  /\ InitClient /\ kind = "chat" /\ changes = 0 /\ drops = MaxDrops /\ nextId = 1 /\ inputs = 0
  /\ (NoSessions \/ BusySessions)

InitIdle ==
  /\ InitClient /\ kind = "chat" /\ changes = 0 /\ drops = MaxDrops /\ nextId = 1 /\ inputs = 0
  /\ NoSessions

\* the chat component on a network that drops transports, watching a busy
\* session without submitting to it
InitReconnect ==
  /\ InitClient /\ kind = "chat" /\ changes = 0 /\ drops = 0 /\ nextId = MaxSends + 1 /\ inputs = 0
  /\ BusySessions

NextChat ==
  \/ ChatMount
  \/ \E s \in Slots : ChatOpen(s)
  \/ \E s \in Slots, failed \in BOOLEAN : ChatClose(s, failed)
  \/ \E t \in Slots : ChatTimer(t)
  \/ \E v \in {"hi"} : sendMessage(v, nextId)
  \/ \E s \in Slots : ChatMessage(s)
  \/ \E s \in Slots : SrvRecv(s)
  \/ \E u \in Users : StartProcessing(u)
  \/ \E u \in Users, ok \in BOOLEAN : Resolve(u, ok)

\* the chat component submitting twice, generateId() drawing from a small space
InitIds ==
  /\ InitClient /\ kind = "chat" /\ changes = 0 /\ drops = MaxDrops /\ nextId = 0 /\ inputs = 0
  /\ NoSessions

NextIds ==
  \/ ChatMount
  \/ \E s \in Slots : ChatOpen(s)
  \/ \E s \in Slots, failed \in BOOLEAN : ChatClose(s, failed)
  \/ \E t \in Slots : ChatTimer(t)
  \/ \E v \in {"hi"}, id \in generateId : sendMessage(v, id)
  \/ \E s \in Slots : ChatMessage(s)
  \/ \E s \in Slots : SrvRecv(s)

SpecIds == InitIds /\ [][NextIds]_vars

\* the chat component submitting twice, with two different ids, on a reliable
\* network
NextTwice ==
  \/ ChatMount
  \/ \E s \in Slots : ChatOpen(s)
  \/ \E s \in Slots, failed \in BOOLEAN : ChatClose(s, failed)
  \/ \E t \in Slots : ChatTimer(t)
  \/ \E v \in {"hi"} : sendMessage(v, nextId + 1)
  \/ \E s \in Slots : ChatMessage(s)
  \/ \E s \in Slots : SrvRecv(s)
  \/ \E u \in Users : StartProcessing(u)
  \/ \E u \in Users, ok \in BOOLEAN : Resolve(u, ok)

SpecTwice == InitIds /\ [][NextTwice]_vars

\* the AuthProvider over any content of the storage it starts from
InitAuth ==
  /\ InitComponents /\ kind = "auth" /\ changes = 0 /\ drops = 0 /\ nextId = 1 /\ inputs = 0
  /\ NoSessions
  /\ \E ls \in Storages : state = Restore(ls) /\ localStorage = StorageAfterRestore(ls)
  /\ authPending = 0

NextAuth ==
  \/ handleGoogleCallback
  \/ \E ok \in BOOLEAN, u \in AuthUsers, a \in Tokens, r \in Tokens : AuthAnswer(ok, u, a, r)
  \/ signOut

SpecAuth == InitAuth /\ [][NextAuth]_vars

\* the chat component with one submission, one change of the user, and the
\* answers of the history store arriving at any time
InitHistory ==
  /\ InitClient /\ kind = "chat" /\ changes = MaxUserChanges - 1 /\ drops = MaxDrops
  /\ nextId = 1 /\ inputs = 0
  /\ NoSessions

NextHistory ==
  \/ NextChat
  \/ \E u \in Users : ChatChangeUser(u)
  \/ \E u \in Users, some \in BOOLEAN : HistoryArrive(u, some)
  \/ \E s \in Slots : SrvDetach(s)

SpecHistory == InitHistory /\ [][NextHistory]_vars

\* the same two submissions with a server that cancels waiting messages
NextTwiceCancel ==
  \/ NextTwice
  \/ \E u \in Users, m \in MsgIds : CancelQueued(u, m)

SpecTwiceCancel == InitIds /\ [][NextTwiceCancel]_vars

\* the same two submissions on a network that drops one connection
InitLossy ==
  /\ InitClient /\ kind = "chat" /\ changes = 0 /\ drops = MaxDrops - 1 /\ nextId = 0 /\ inputs = 0
  /\ NoSessions

NextLossy ==
  \/ NextTwice
  \/ \E s \in Slots : SrvDetach(s)

SpecLossy == InitLossy /\ [][NextLossy]_vars

\* the chat component whose user presses Enter on a text or on a blank
\* textarea, connected or not; generateId() draws from a small space
Inputs == {"hi", " "}
NextInput ==
  \/ ChatMount
  \/ \E s \in Slots : ChatOpen(s)
  \/ \E s \in Slots, failed \in BOOLEAN : ChatClose(s, failed)
  \/ \E t \in Slots : ChatTimer(t)
  \/ \E v \in Inputs, id \in generateId : sendMessage(v, id)
  \/ \E s \in Slots : ChatMessage(s)
  \/ \E s \in Slots : SrvRecv(s)

SpecInput == InitLossy /\ [][NextInput]_vars

\* the chat component on a reliable network with an executor that calls tools
NextTools ==
  \/ NextChat
  \/ \E u \in Users : ToolEvent(u)

SpecTools == InitIdle /\ [][NextTools]_vars

NextReconnect ==
  \/ NextChat
  \/ \E s \in Slots : SrvDetach(s)

SpecChat == InitChat /\ [][NextChat]_vars
SpecReconnect == InitReconnect /\ [][NextReconnect]_vars

\* the life cycle of one component (chat, terminal or file explorer) whose user
\* does nothing but change identity: mount, drops and reconnects, unmount
InitRetry ==
  /\ InitClient /\ kind \in Kinds /\ changes = 0 /\ drops = 0
  /\ nextId = MaxSends + 1 /\ inputs = MaxInputs
  /\ NoSessions

NextRetry ==
  \/ ChatMount
  \/ \E u \in Users : ChatChangeUser(u)
  \/ ChatUnmount
  \/ \E s \in Slots : ChatOpen(s)
  \/ \E s \in Slots, failed \in BOOLEAN : ChatClose(s, failed)
  \/ \E t \in Slots : ChatTimer(t)
  \/ \E s \in Slots : ChatMessage(s)
  \/ TermMount
  \/ \E u \in Users : TermChangeUser(u)
  \/ TermUnmount
  \/ \E s \in Slots : TermOpen(s)
  \/ \E s \in Slots : TermMessage(s)
  \/ \E s \in Slots : TermClose(s)
  \/ \E t \in Slots : TermTimer(t)
  \/ FilesMount
  \/ \E u \in Users : FilesChangeUser(u)
  \/ FilesUnmount
  \/ \E s \in Slots : FilesOpen(s)
  \/ \E s \in Slots : FilesMessage(s)
  \/ \E s \in Slots, failed \in BOOLEAN : FilesClose(s, failed)
  \/ \E t \in Slots : FilesTimer(t)
  \/ FilesRetry
  \/ \E s \in Slots : SrvRecv(s)
  \/ \E s \in Slots : SrvDetach(s)
  \/ \E u \in Users : EvictIfIdle(u)
  \/ \E u \in Users : InitWorkspace(u)

SpecRetry == InitRetry /\ [][NextRetry]_vars

\* the same life cycle with a user who also types, resizes, submits and
\* refreshes and has one change of identity left; before the chat component
\* mounts, a foreign client may speak on a transport without a handshake
InitConn ==
  /\ InitClient /\ kind \in Kinds /\ changes = MaxUserChanges - 1 /\ drops = 0
  /\ nextId = 1 /\ inputs = 0
  /\ NoSessions

NextConn ==
  \/ NextRetry
  \/ \E v \in {"hi"} : sendMessage(v, nextId)
  \/ onData
  \/ onResize
  \/ handleRefresh
  \/ \E s \in Slots : SrvFileEvent(s)
  \/ \E s \in Slots : ChanOpen(s)
  \/ \E s \in Slots : ChanMessage(s)
  \/ \E s \in Slots : ChanClose(s)

SpecConn == InitConn /\ [][NextConn]_vars

\* the file explorer of one user on a network that drops no socket, with a
\* workspace that is initialized at some time; timers fire, frames are
\* delivered and read, sockets finish opening and closing
InitFiles ==
  /\ InitClient /\ kind = "files" /\ changes = MaxUserChanges /\ drops = MaxDrops
  /\ nextId = MaxSends + 1 /\ inputs = 0
  /\ NoSessions

NextFiles ==
  \/ FilesMount
  \/ \E s \in Slots : FilesOpen(s)
  \/ \E s \in Slots : FilesMessage(s)
  \/ \E s \in Slots, failed \in BOOLEAN : FilesClose(s, failed)
  \/ \E t \in Slots : FilesTimer(t)
  \/ FilesRetry
  \/ handleRefresh
  \/ \E s \in Slots : SrvFileEvent(s)
  \/ \E s \in Slots : SrvRecv(s)
  \/ \E u \in Users : InitWorkspace(u)

FairFiles ==
  /\ WF_vars(FilesRetry)
  /\ \A s \in Slots :
       /\ WF_vars(FilesOpen(s)) /\ WF_vars(FilesMessage(s)) /\ WF_vars(FilesTimer(s))
       /\ WF_vars(\E failed \in BOOLEAN : FilesClose(s, failed))
       /\ WF_vars(SrvRecv(s))
  /\ \A u \in Users : WF_vars(InitWorkspace(u))

SpecFiles == InitFiles /\ [][NextFiles]_vars /\ FairFiles

\* the file explorer with one dropped connection, one change of the user and a
\* files adapter that can also fail for other reasons
InitFilesErr ==
  /\ InitClient /\ kind = "files" /\ changes = MaxUserChanges - 1 /\ drops = MaxDrops - 1
  /\ nextId = MaxSends + 1 /\ inputs = 0
  /\ NoSessions

NextFilesErr ==
  \/ NextFiles
  \/ \E u \in Users : FilesChangeUser(u)
  \/ \E s \in Slots : SrvFilesError(s)
  \/ \E s \in Slots : SrvDetach(s)

SpecFilesErr == InitFilesErr /\ [][NextFilesErr]_vars

\* the terminal component with one change of the user, keystrokes, resizes
\* and a bridge that sends output and errors
InitTerm ==
  /\ InitClient /\ kind = "terminal" /\ changes = MaxUserChanges - 1 /\ drops = 0
  /\ nextId = 1 /\ inputs = 0
  /\ NoSessions

NextTerm ==
  \/ TermMount
  \/ \E u \in Users : TermChangeUser(u)
  \/ TermUnmount
  \/ \E s \in Slots : TermOpen(s)
  \/ \E s \in Slots : TermMessage(s)
  \/ \E s \in Slots : TermClose(s)
  \/ \E t \in Slots : TermTimer(t)
  \/ onData
  \/ onResize
  \/ \E s \in Slots, f \in {BridgeErrorFrame} \cup {OutputFrame(x) : x \in Texts} : SrvTermFrame(s, f)
  \/ \E s \in Slots : SrvRecv(s)
  \/ \E s \in Slots : SrvDetach(s)

SpecTerm == InitTerm /\ [][NextTerm]_vars

\* ------------------------------------------------------------------ claims
IsSubseq(a, b) ==
  LET R[i \in 0..Len(a), j \in 0..Len(b)] ==
        IF i = 0 THEN TRUE
        ELSE IF j = 0 THEN FALSE
        ELSE IF a[i] = b[j] THEN R[i - 1, j - 1] ELSE R[i, j - 1]
  IN R[Len(a), Len(b)]
InSeq(x, q) == \E i \in 1..Len(q) : q[i] = x
IsWaiting(u, m) ==
  \E i \in 1..Len(sessions[u].queue) :
     sessions[u].queue[i].id = m /\ sessions[u].queue[i].status = "queued"
Last(q) == q[Len(q)]

\* a step in which the server takes a message frame from attached transport s
SubmitStep(s) ==
  /\ socks[s].srv = "attached" /\ socks[s].c2s # <<>> /\ Head(socks[s].c2s).type = "message"
  /\ sessions[socks[s].suser].exists
  /\ socks'[s].srv = "attached" /\ socks'[s].c2s = Tail(socks[s].c2s)
AnsweredQueueFull(s, q) ==
  socks[s].st = "OPEN" =>
    /\ socks'[s].s2c # <<>>
    /\ Last(socks'[s].s2c) = QueueFullFrame(Head(socks[s].c2s).id, Len(q), MaxQueueSize)

\* C1: the processing_started events of a session come in the order in which
\* its messages were admitted, whichever transports submitted them: the
\* started messages are a subsequence of the admitted ones, and no message
\* has started while one admitted before it is still waiting.
C1_Fifo ==
  \A u \in Users :
    /\ IsSubseq(started[u], admitted[u])
    /\ \A i, j \in 1..Len(admitted[u]) :
         (i < j /\ InSeq(admitted[u][j], started[u])) => ~IsWaiting(u, admitted[u][i])
C1_Witness ==
  \E u \in Users : Len(started[u]) >= 2 /\ Len(admitted[u]) >= 3 /\ IsProcessing(sessions[u].queue)

\* C2: at most one message of a session is processing in any state, and a
\* message starts processing only in a state where none is processing.
C2_SingleFlight ==
  /\ [](\A u \in Users :
          Cardinality({i \in 1..Len(sessions[u].queue) : sessions[u].queue[i].status = "processing"}) <= 1)
  /\ [][\A u \in Users : started'[u] # started[u] => ~IsProcessing(sessions[u].queue)]_vars
C2_Witness ==
  \E u \in Users : Len(started[u]) >= 2 /\ IsProcessing(sessions[u].queue) /\ Waiting(sessions[u].queue) # {}

\* C3: a submit that finds the queue holding MaxQueueSize messages is answered
\* in the same step with queued{status:"queue_full", queue_size, max_queue_size};
\* the queue (its length, its messages and their positions) is unchanged, and
\* the queue never holds more than MaxQueueSize messages.
C3_QueueFull ==
  /\ [](\A u \in Users : Len(sessions[u].queue) <= MaxQueueSize)
  /\ [][\A s \in Slots :
          (SubmitStep(s) /\ Len(sessions[socks[s].suser].queue) >= MaxQueueSize) =>
             /\ sessions' = sessions /\ admitted' = admitted
             /\ AnsweredQueueFull(s, sessions[socks[s].suser].queue)]_vars
C3_Witness ==
  \E s \in Slots : \E i \in 1..Len(socks[s].s2c) :
     /\ socks[s].s2c[i].x = "queue_full" /\ socks[s].s2c[i].size = MaxQueueSize
     /\ Len(sessions[socks[s].suser].queue) = MaxQueueSize

\* C5: with capacity 2, when m1 is processing and m2 is queued at position 1,
\* a third submit is rejected with queue_full and the queue stays as it is.
C5_ThirdRejected ==
  [][\A s \in Slots :
       LET q == sessions[socks[s].suser].queue
       IN (/\ SubmitStep(s) /\ MaxQueueSize = 2 /\ Len(q) = 2
           /\ q[1].status = "processing" /\ q[2].status = "queued" /\ Position(q, 2) = 1) =>
            /\ sessions'[socks[s].suser].queue = q
            /\ ~InSeq(Head(socks[s].c2s).id, admitted'[socks[s].suser])
            /\ AnsweredQueueFull(s, q)]_vars
C5_Witness ==
  \E s \in Slots, u \in Users :
     /\ admitted[u] = <<1, 2>> /\ started[u] = <<1>>
     /\ sessions[u].queue = <<[id |-> 1, status |-> "processing"], [id |-> 2, status |-> "queued"]>>
     /\ socks[s].s2c = <<QueueFullFrame(3, 2, 2)>>

\* C10: a session is evicted only by its idle timer firing while no channel is
\* attached; when the timer fires with a channel attached the session only
\* loses the timer, and a detach leaves the session and its queue in place.
C10_Eviction ==
  [][\A u \in Users :
       /\ (sessions[u].exists /\ ~sessions'[u].exists) =>
            (sessions[u].attached = {} /\ sessions[u].idle)
       /\ (sessions[u].exists /\ sessions[u].attached # {} /\ sessions[u].idle /\ ~sessions'[u].idle) =>
            sessions'[u] = [sessions[u] EXCEPT !.idle = FALSE]
       /\ (sessions[u].exists /\ sessions'[u].attached # sessions[u].attached
             /\ sessions'[u].attached \subseteq sessions[u].attached /\ sessions[u].attached # {}) =>
            (sessions'[u].exists /\ sessions'[u].queue = sessions[u].queue)]_vars
C10_Witness ==
  \E u \in Users :
     /\ sessions[u].exists /\ sessions[u].idle /\ sessions[u].attached # {}
     /\ IsProcessing(sessions[u].queue) /\ Waiting(sessions[u].queue) # {}

\* a step in which the chat component handles frame type t from socket s
Handles(s, t) ==
  /\ socks[s].st = "OPEN" /\ ~socks[s].raw /\ socks[s].s2c # <<>>
  /\ Head(socks[s].s2c).type = t
  /\ socks'[s].st = "OPEN" /\ socks'[s].s2c = Tail(socks[s].s2c)

\* C4: once the chat component has received queued{status:"queue_full"} for a
\* message, the message list never shows that message as queued or processing.
C4_RejectedNeverQueued ==
  \A i \in 1..Len(messages) :
     messages[i].id \in rejectedSeen => messages[i].status \notin {"queued", "processing"}

\* C6: once an attached chat socket has dropped and a transport has been
\* attached again, the chat component applies no further response for a message
\* that was resolved before the drop and whose response it had applied already.
C6_NoDuplicateResponse ==
  [][\A m \in AllIds :
       (reattach[m] = 2 /\ respApplied[m] >= 1) => respApplied'[m] = respApplied[m]]_vars

\* C8: the step that attaches a chat transport appends connected and then a
\* status frame carrying the session's queue size and processing flag of that
\* very step; connected is never in flight without status right behind it; and
\* the step in which the chat component handles a status frame leaves
\* queueStatus equal to the size and flag the frame carries.
C8_StatusAfterHandshake ==
  /\ [](\A s \in Slots : \A i \in 1..Len(socks[s].s2c) :
          socks[s].s2c[i].type = "connected" =>
            (i < Len(socks[s].s2c) /\ socks[s].s2c[i + 1].type = "status"))
  /\ [][\A s \in Slots :
          (socks[s].srv = "accepted" /\ socks'[s].srv = "attached" /\ socks[s].st = "OPEN") =>
             LET q == sessions'[socks'[s].suser].queue
                 n == Len(socks'[s].s2c)
             IN /\ n >= 2
                /\ socks'[s].s2c[n - 1] = ConnectedFrame
                /\ socks'[s].s2c[n] = StatusFrame(Len(q), IsProcessing(q))]_vars
  /\ [][\A s \in Slots :
          Handles(s, "status") =>
             queueStatus' = [size |-> Head(socks[s].s2c).n,
                             processing |-> (Head(socks[s].s2c).x = "true")]]_vars
\* a reconnected client has been resynchronised to a busy session
C8_Witness ==
  /\ drops = MaxDrops /\ connected
  /\ queueStatus.processing /\ queueStatus.size >= 1
  /\ \E u \in Users : /\ IsProcessing(sessions[u].queue)
                       /\ queueStatus.size = Len(sessions[u].queue)

\* C7: the first frame a client socket (chat, terminal, files) sends is connect;
\* the server attaches a transport only in the step that takes a connect frame
\* from it, and a step that takes any other frame from a transport not yet
\* attached answers with an error event and leaves it unattached.
C7_ConnectFirst ==
  /\ [](\A s \in Slots : ~socks[s].raw => socks[s].first \in {"none", "connect"})
  /\ [][\A s \in Slots :
          (socks[s].srv = "accepted" /\ socks'[s].srv = "attached") =>
             (socks[s].c2s # <<>> /\ Head(socks[s].c2s).type = "connect")]_vars
  /\ [][\A s \in Slots :
          (/\ socks[s].srv = "accepted" /\ socks[s].c2s # <<>>
           /\ Head(socks[s].c2s).type # "connect"
           /\ socks'[s].c2s = Tail(socks[s].c2s)
           /\ socks'[s].srv \in {"accepted", "attached"}) =>
             /\ socks'[s].srv = "accepted"
             /\ sessions' = sessions
             /\ socks[s].st = "OPEN" =>
                  (socks'[s].s2c # <<>> /\ Last(socks'[s].s2c).type = "error")]_vars
\* a client socket is attached and has a later frame of its own on the way
C7_Witness ==
  \E s \in Slots :
     /\ ~socks[s].raw /\ socks[s].srv = "attached" /\ socks[s].first = "connect"
     /\ socks[s].c2s # <<>> /\ Head(socks[s].c2s).type \in {"message", "stdin", "resize", "subscribe", "get_tree"}

\* C9: a mounted component always has a socket that is connecting, open or
\* closing, or a pending reconnect timer: after a close there is always
\* something left that opens the next socket.
C9_ReconnectPending ==
  phase = "mounted" =>
    \/ \E s \in Slots : socks[s].st \in {"CONNECTING", "OPEN", "CLOSING"}
    \/ timers # {}

\* ------------------------------------------------------- claims: cancellation
IndexOf(q, m) == CHOOSE i \in 1..Len(q) : q[i].id = m
InQ(q, m) == \E i \in 1..Len(q) : q[i].id = m
PosOf(q, m) == Position(q, IndexOf(q, m))
HasFrame(fs, f) == \E i \in 1..Len(fs) : fs[i] = f
\* a step that takes the waiting message m out of the queue of a session that stays
CancelStep(u, m) ==
  /\ IsWaiting(u, m) /\ sessions'[u].exists /\ ~InQ(sessions'[u].queue, m)

\* C11: a step that cancels a waiting message removes it from the queue with
\* status cancelled and tells every attached channel cancelled{reason
\* cancelled}; each message waiting behind it has its position decreased by
\* exactly one and is sent the new position, each message waiting ahead of it
\* keeps its position.
C11_CancelQueued ==
  [][\A u \in Users, m \in MsgIds :
       CancelStep(u, m) =>
         LET q == sessions[u].queue
             q2 == sessions'[u].queue
         IN /\ ended'[m] = {"cancelled"}
            /\ Len(q2) = Len(q) - 1
            /\ \A s \in sessions[u].attached :
                 socks[s].st = "OPEN" => HasFrame(socks'[s].s2c, CancelledFrame(m, "cancelled"))
            /\ \A i \in Waiting(q) :
                 q[i].id # m =>
                   /\ InQ(q2, q[i].id)
                   /\ PosOf(q2, q[i].id) = IF i > IndexOf(q, m) THEN Position(q, i) - 1
                                           ELSE Position(q, i)
                   /\ \A s \in sessions[u].attached :
                        (socks[s].st = "OPEN" /\ i > IndexOf(q, m)) =>
                          HasFrame(socks'[s].s2c, QueuedFrame(q[i].id, Position(q, i) - 1))]_vars
\* a channel has just been told that a message was cancelled and that the
\* message admitted after it moved up to position 1
C11_Witness ==
  \E u \in Users, s \in Slots, m, x \in MsgIds :
    /\ m < x /\ ended[m] = {"cancelled"} /\ IsWaiting(u, x)
    /\ s \in sessions[u].attached
    /\ HasFrame(socks[s].s2c, CancelledFrame(m, "cancelled"))
    /\ HasFrame(socks[s].s2c, QueuedFrame(x, 1))

\* a step in which the message in flight of u, whose abort was signalled, ends
RaceEnds(u) ==
  /\ sessions[u].exists /\ sessions[u].abort /\ IsProcessing(sessions[u].queue)
  /\ sessions'[u].exists /\ ~InQ(sessions'[u].queue, InFlight(sessions[u].queue))

\* C12: when the cancellation of the message in flight races with its
\* completion, the message gets exactly one terminal event: no message ever
\* has two (never both a response and a cancelled), an abort is pending only
\* while a message is in flight, and the step that ends the message - the
\* abort landing or the job finishing, the cancel then being dropped - leaves
\* nothing in flight and no abort pending, so the next waiting message can start.
C12_CancelRace ==
  /\ [](\A m \in AllIds : Cardinality(ended[m]) <= 1)
  /\ [](\A u \in Users : sessions[u].abort => IsProcessing(sessions[u].queue))
  /\ [][\A u \in Users :
         RaceEnds(u) =>
           /\ ended'[InFlight(sessions[u].queue)] \in {{"cancelled"}, {"completed"}, {"error"}}
           /\ ~sessions'[u].abort /\ ~IsProcessing(sessions'[u].queue)
           /\ Waiting(sessions'[u].queue) # {} => CanStart(sessions'[u].queue)]_vars
\* a message that had started ended cancelled and the one behind it is now in flight
C12_Witness ==
  \E u \in Users, m \in MsgIds :
    /\ InSeq(m, started[u]) /\ ended[m] = {"cancelled"}
    /\ IsProcessing(sessions[u].queue) /\ InFlight(sessions[u].queue) > m

\* --------------------------------------------------- claims: message status
Rank(st) ==
  CASE st = "sending" -> 0
    [] st = "queued" -> 1
    [] st = "processing" -> 2
    [] OTHER -> 3
IsTerminal(st) == st \in {"completed", "error", "cancelled", "queue_full"}

\* C13: the status the client shows for a message it submitted only moves
\* forward along sending, queued, processing, terminal, and a terminal status
\* is never changed by a later event.
C13_StatusForward ==
  [][\A i \in 1..Len(messages) :
       (i <= Len(messages') /\ messages[i].type = "user" /\ messages'[i].id = messages[i].id) =>
         /\ Rank(messages'[i].status) >= Rank(messages[i].status)
         /\ IsTerminal(messages[i].status) => messages'[i].status = messages[i].status]_vars

\* no event of the server is on its way to the client
Quiet == \A s \in Slots : ~socks[s].raw => (socks[s].s2c = <<>> /\ socks[s].c2s = <<>>)

\* C14: once the client has handled every event broadcast to it, the position
\* it holds for each of its messages that waits in the server's queue is that
\* message's 1-based index among the waiting messages of the queue, and the
\* message is shown as queued.
C14_PositionMatches ==
  Quiet =>
    \A i \in 1..Len(messages) :
      (messages[i].type = "user" /\ IsWaiting(userId, messages[i].id)) =>
        /\ messages[i].status = "queued"
        /\ messages[i].pos = PosOf(sessions[userId].queue, messages[i].id)
\* both messages admitted before the client's have started, and the client,
\* with no event left to handle, holds position 1 for its waiting message
C14_Witness ==
  /\ Quiet /\ Len(started[userId]) >= 2
  /\ \E i \in 1..Len(messages) :
       /\ messages[i].type = "user" /\ IsWaiting(userId, messages[i].id)
       /\ messages[i].pos = 1
       /\ sessions[userId].queue[1].status = "processing"

\* C15: no two messages in the client's list that it submitted carry the same
\* id, so that a status event for one id updates one message.
C15_UniqueIds ==
  \A i, j \in 1..Len(messages) :
    (i # j /\ messages[i].type = "user" /\ messages[j].type = "user") =>
      messages[i].id # messages[j].id

\* ------------------------------------------------------ claims: tool events
\* the tool entries of message m in the client's list, in list order
ToolsShown(m) ==
  LET F[i \in 0..Len(messages)] ==
        IF i = 0 THEN <<>>
        ELSE IF messages[i].type = "tool" /\ messages[i].tool[2][1] = m
             THEN Append(F[i - 1], messages[i].tool)
             ELSE F[i - 1]
  IN F[Len(messages)]
\* the first n tool events of message m in the order the executor produced them
ToolsEmitted(m, n) == [k \in 1..n |-> <<ToolFrame(m, k).type, <<m, ToolFrame(m, k).n>>>>]

\* C16: the tool entries the client shows for a message are the tool events of
\* that message in the order the executor produced them, each once, and all
\* of them stand before the assistant response to the message.
C16_ToolOrder ==
  \A m \in MsgIds :
    /\ Len(ToolsShown(m)) <= MaxToolEvents
    /\ ToolsShown(m) = ToolsEmitted(m, Len(ToolsShown(m)))
    /\ \A i, j \in 1..Len(messages) :
         (/\ messages[i].type = "tool" /\ messages[i].tool[2][1] = m
          /\ messages[j].type = "assistant" /\ messages[j].content = m) => i < j

\* ---------------------------------------------------------- claims: terminal
\* the client has received connected on socket s
Acked(s) ==
  /\ socks[s].st = "OPEN" /\ socks[s].srv = "attached"
  /\ \A i \in 1..Len(socks[s].s2c) : socks[s].s2c[i].type # "connected"
\* a step in which the client puts a stdin or resize frame on socket s
SendsInput(s) ==
  /\ socks[s].st = "OPEN" /\ socks'[s].st = "OPEN"
  /\ Len(socks'[s].c2s) = Len(socks[s].c2s) + 1
  /\ Last(socks'[s].c2s).type \in {"stdin", "resize"}

\* C17: the terminal client puts a resize or stdin frame on a socket only when
\* it has received connected on that socket, the frame it sends while
\* handling connected included.
C17_InputAfterConnected ==
  [][\A s \in Slots :
       SendsInput(s) =>
         \/ Acked(s)
         \/ socks[s].s2c # <<>> /\ Head(socks[s].s2c).type = "connected"
              /\ socks'[s].s2c = Tail(socks[s].s2c)]_vars

\* the terminal channel is attached: the current socket is open and acknowledged
Attached == wsRef # 0 /\ Acked(wsRef)

\* C18: while the terminal channel is attached, the guard of onData lets the
\* input through, and the step that handles a keystroke puts it as one raw
\* frame at the end of what the current socket still has to deliver, behind
\* the frames typed before it; nothing but the server reading the frame at
\* the head takes a frame of an open socket away.
C18_InputForwarded ==
  /\ [](kind = "terminal" /\ phase = "mounted" /\ Attached => CanType)
  /\ [][\A s \in Slots :
         (socks[s].st = "OPEN" /\ socks'[s].st = "OPEN" /\ socks'[s].c2s # socks[s].c2s) =>
           \/ \E f \in {StdinFrame, ResizeFrame} : socks'[s].c2s = Append(socks[s].c2s, f)
           \/ socks[s].c2s # <<>> /\ socks'[s].c2s = Tail(socks[s].c2s)]_vars
\* a keystroke typed on the attached channel waits behind the initial resize
C18_Witness ==
  /\ kind = "terminal" /\ Attached
  /\ socks[wsRef].c2s = <<ResizeFrame, StdinFrame>>

\* a step in which the terminal component handles the next frame of socket s
TermHandles(s) ==
  /\ kind = "terminal" /\ socks[s].st = "OPEN" /\ socks[s].s2c # <<>>
  /\ socks'[s].st = "OPEN" /\ socks'[s].s2c = Tail(socks[s].s2c)

\* C19: each frame the terminal component handles is either written to the
\* xterm unchanged as raw output, and then it is not one of the control
\* frames connected and error, or it is handled as a control frame without a
\* raw write, and then it parses as JSON with type connected or error.
C19_FrameDisambiguation ==
  [][\A s \in Slots :
       TermHandles(s) =>
         LET f == Head(socks[s].s2c)
         IN \/ /\ xterm' = Append(xterm, WrittenRaw(f))
               /\ f.type \notin {"connected", "error"}
            \/ /\ xterm' # Append(xterm, WrittenRaw(f))
               /\ ParsedType(f) \in {"connected", "error"}
               /\ f.type = "connected" => xterm' = xterm /\ connectedToSpriteRef'
               /\ f.type = "error" => xterm' = Append(xterm, WrittenError(f))]_vars
\* connected was handled as a control frame and a JSON text of another type
\* was written as raw output
C19_Witness ==
  /\ kind = "terminal" /\ connectedToSpriteRef
  /\ \E i \in 1..Len(xterm) : xterm[i] = WrittenRaw(OutputFrame("{\"type\":\"pong\"}"))

FilesHandlesError(s) ==
  /\ kind = "files" /\ socks[s].st = "OPEN" /\ socks[s].s2c # <<>>
  /\ Head(socks[s].s2c).type = "error"
  /\ socks'[s].st = "OPEN" /\ socks'[s].s2c = Tail(socks[s].s2c)
\* a step in which the retry timer fires
RetryFires == kind = "files" /\ retry /\ ~retry' /\ socks' # socks /\ wsRef' = wsRef /\ wsRef # 0
              /\ Len(socks'[wsRef].c2s) = Len(socks[wsRef].c2s) + 1
              /\ socks'[wsRef].s2c = socks[wsRef].s2c

\* part of C21 that holds: handling an error frame schedules the retry exactly when the error
\* is the not-initialized one; any other error leaves the retry timer as it was.
C21_RetryOnlyNotInitialized ==
  [][\A s \in Slots :
       FilesHandlesError(s) =>
         LET e == Head(socks[s].s2c).x
         IN IF e \in {"Sandbox not initialized", "Not initialized"}
            THEN retry' /\ error' = "Not initialized"
            ELSE retry' = retry /\ error' = e]_vars
\* part of C21 that holds: the retry sends one get_tree on the current socket and nothing else:
\* no connect frame, no new socket.
C21_RetryIsGetTree ==
  [][RetryFires =>
       /\ socks'[wsRef].c2s = Append(socks[wsRef].c2s, GetTreeFrame)
       /\ \A s \in Slots : s # wsRef => socks'[s] = socks[s]]_vars
\* C21: the file explorer retries only on the not-initialized error, and the
\* retry is a get_tree, without a connect frame, on a socket that has
\* completed its handshake.
C21_RetryOnHandshakenSocket ==
  [][RetryFires => Acked(wsRef)]_vars

\* ---------------------------------------------------- claims: connection state
\* a step in which the open socket s is lost: its close event fires
Drops(s) == socks[s].st = "OPEN" /\ ~socks[s].raw /\ socks'[s].st \in {"CLOSED", "FREE"}

\* C22: when an open socket of the chat or files channel is lost, the error
\* shown to the user stays what it was: the step only turns the connected
\* indicator off and schedules the reconnect timer.
C22_DropShowsNoError ==
  [][\A s \in Slots :
       (kind \in {"chat", "files"} /\ Drops(s)) =>
         /\ error' = error
         /\ ~connected'
         /\ s \in timers']_vars

\* ------------------------------------------------------ claims: the registry
\* a step in which the server attaches transport s
AttachStep(s) == socks[s].srv = "accepted" /\ socks'[s].srv = "attached"

\* C23: connects with the same user key, in any interleaving with each other
\* and with the work of the queue, all end in the one session of that key:
\* every attached transport is a channel of the session of its key, a connect
\* to a key that has a session keeps that session's queue and channels, and
\* the key never has two messages processing.
C23_OneSessionPerKey ==
  /\ [](\A s \in Slots :
          socks[s].srv = "attached" =>
            /\ sessions[socks[s].suser].exists
            /\ s \in sessions[socks[s].suser].attached)
  /\ [](\A u \in Users :
          Cardinality({i \in 1..Len(sessions[u].queue) : sessions[u].queue[i].status = "processing"}) <= 1)
  /\ [][\A s \in Slots :
         AttachStep(s) =>
           LET u == socks'[s].suser
           IN sessions[u].exists =>
                /\ sessions'[u].queue = sessions[u].queue
                /\ sessions'[u].attached = sessions[u].attached \cup {s}]_vars
\* two transports are attached to the session of one key while it processes
\* a message and another one waits
C23_Witness ==
  \E u \in Users :
    /\ Cardinality(sessions[u].attached) = 2
    /\ \A s \in sessions[u].attached : socks[s].srv = "attached" /\ socks[s].suser = u
    /\ IsProcessing(sessions[u].queue) /\ Waiting(sessions[u].queue) # {}

\* the sockets of the client that are connecting or open
Live == {s \in Slots : ~socks[s].raw /\ socks[s].st \in {"CONNECTING", "OPEN"}}

\* C24: the client has at most one socket that is connecting or open.
C24_OneLiveSocket == Cardinality(Live) <= 1

\* a step in which socket s of the client opens and its onopen sends connect
SendsConnect(s) ==
  /\ ~socks[s].raw /\ socks[s].st = "CONNECTING" /\ socks'[s].st = "OPEN"
  /\ socks'[s].c2s # <<>> /\ Last(socks'[s].c2s).type = "connect"

\* C25: every connect frame the client sends carries the user id that is
\* current when the frame is sent.
C25_ConnectCarriesCurrentUser ==
  [][\A s \in Slots : SendsConnect(s) => Last(socks'[s].c2s).x = userId]_vars

\* ------------------------------------------------------- claims: file events
\* C26: handling a file_event leaves the displayed tree as it is and sends one
\* get_tree on the current socket when that socket is open, nothing
\* otherwise; the displayed tree changes only to the payload of a tree frame
\* being handled, or to null when the user changes.
C26_TreeFromTreeFrames ==
  /\ [][\A s \in Slots :
         (kind = "files" /\ Handles(s, "file_event")) =>
           /\ tree' = tree
           /\ IF wsRef # 0 /\ socks[wsRef].st = "OPEN"
              THEN socks'[wsRef].c2s = Append(socks[wsRef].c2s, GetTreeFrame)
              ELSE \A t \in Slots : socks'[t].c2s = socks[t].c2s]_vars
  /\ [][(kind = "files" /\ tree' # tree) =>
         \/ \E s \in Slots : Handles(s, "tree") /\ tree' = Head(socks[s].s2c).x
         \/ userId' # userId /\ tree' = ""]_vars
\* a tree is shown and nothing is loading (a refresh by the user would show
\* the loading state) while a get_tree waits on the current socket
C26_Witness ==
  /\ kind = "files" /\ tree # "" /\ ~isLoading /\ error = "" /\ inputs = 1
  /\ wsRef # 0 /\ HasFrame(socks[wsRef].c2s, GetTreeFrame)

\* ------------------------------------------------------ claims: error events
\* C27: handling an error event that carries message id m sets the entry of m
\* to error and leaves every other entry of the list as it was; the socket
\* it came from, the other sockets, the current socket, the connected
\* indicator and the reconnect timers are untouched, and the server still has
\* the socket attached, so the next submission needs no new handshake.
C27_ErrorTouchesOnlyItsMessage ==
  [][\A s \in Slots :
       (kind = "chat" /\ Handles(s, "error") /\ Head(socks[s].s2c).id # 0) =>
         LET m == Head(socks[s].s2c).id
         IN /\ Len(messages') = Len(messages)
            /\ \A i \in 1..Len(messages) :
                  messages'[i] = IF messages[i].id = m
                                 THEN [messages[i] EXCEPT !.status = "error", !.pos = 0]
                                 ELSE messages[i]
            /\ socks' = [socks EXCEPT ![s].s2c = Tail(@)]
            /\ wsRef' = wsRef /\ connected' = connected
            /\ timers' = timers /\ reconnectTimeoutRef' = reconnectTimeoutRef
            /\ socks'[s].srv = "attached"]_vars
\* the first message failed; the second, submitted with the error banner
\* cleared, went through the same socket and completed
C27_Witness ==
  /\ kind = "chat" /\ Len(messages) >= 2
  /\ messages[1].id = 1 /\ messages[1].status = "error"
  /\ \E i \in 2..Len(messages) : messages[i].id = 2 /\ messages[i].status = "completed"
  /\ error = ""
  /\ Cardinality({s \in Slots : socks[s].first = "connect"}) = 1

\* ------------------------------------------------ claims: connected indicator
\* a step in which the close event of socket s is handled while another
\* socket is the current one
SupersededCloses(s) ==
  /\ ~socks[s].raw /\ socks[s].st \in {"CONNECTING", "OPEN", "CLOSING"} /\ socks'[s].st = "CLOSED"
  /\ wsRef # 0 /\ wsRef # s
\* part of C28: the close handler of a superseded socket leaves wsRef and the
\* connected indicator as they are.
C28_SupersededCloseKeepsSuccessor ==
  [][\A s \in Slots : SupersededCloses(s) => (wsRef' = wsRef /\ connected' = connected)]_vars
\* C28: the connected indicator is true exactly when the socket held in wsRef
\* is open and has received connected.
C28_IndicatorMatchesSocket == connected <=> (wsRef # 0 /\ Acked(wsRef))

\* ------------------------------------------------- claims: messages and drops
\* a frame about message m is still on its way to the client
OnItsWay(m) ==
  \E s \in Slots : /\ ~socks[s].raw /\ socks[s].st = "OPEN"
                   /\ \E i \in 1..Len(socks[s].s2c) : socks[s].s2c[i].id = m
\* the server is done with message m: it emitted the terminal event of m and
\* will emit nothing about m again
ServerDone(m) == ended[m] # {}
\* C29: a message the chat client has sent is never left without a way to a
\* terminal status: while its entry is sending, queued or processing, the
\* server still has to resolve it or a frame about it is on its way. (In a
\* state that violates this nothing can change the entry any more, so the
\* message never reaches completed, error or cancelled.)
C29_OutcomeNeverLost ==
  \A i \in 1..Len(messages) :
     (messages[i].type = "user" /\ messages[i].id \in MsgIds /\ ~IsTerminal(messages[i].status)) =>
       (~ServerDone(messages[i].id) \/ OnItsWay(messages[i].id))

\* C30: at most one entry of the chat client's message list has status
\* processing.
C30_OneProcessingShown ==
  Cardinality({i \in 1..Len(messages) : messages[i].status = "processing"}) <= 1

\* ------------------------------------------------ claims: processing flag
\* the chat component has handled every frame sent to it and its current
\* socket is attached
CaughtUp ==
  /\ kind = "chat" /\ phase = "mounted" /\ Quiet
  /\ wsRef # 0 /\ socks[wsRef].st = "OPEN" /\ socks[wsRef].srv = "attached"
\* C31: once the chat component has handled every event sent to it,
\* queueStatus.processing is false only if no message of the session is
\* processing.
C31_FlagFalseOnlyWhenIdle ==
  (CaughtUp /\ ~queueStatus.processing) => ~IsProcessing(sessions[userId].queue)

\* ------------------------------------------------------- claims: history
\* a step in which loadChatHistory continues with the answer of the store
HistoryStep == \E u \in Users : histPending'[u] = histPending[u] - 1
\* part of C32: the answer of the history store never removes a message the
\* user has submitted.
C32_HistoryKeepsSent ==
  [][HistoryStep =>
       \A i \in 1..Len(messages) :
          (messages[i].type = "user" /\ messages[i].hist = "-") =>
            \E j \in 1..Len(messages') : messages'[j].id = messages[i].id /\ messages'[j].hist = "-"]_vars
\* C32: the message list never holds history that was fetched for a user
\* other than the current one.
C32_NoForeignHistory ==
  \A i \in 1..Len(messages) : messages[i].hist \in {"-", userId}

\* ------------------------------------------------------- claims: cleanup
\* a step in which the component creates a socket
OpensSocket == \E s \in Slots : ~socks'[s].raw /\ socks[s].st # "CONNECTING" /\ socks'[s].st = "CONNECTING"
\* C33: once the cleanup of a channel component has run on unmount, the
\* component creates no further socket.
C33_NoSocketAfterCleanup == [][phase = "unmounted" => ~OpensSocket]_vars

\* --------------------------------------------------- claims: sendMessage
\* a step of sendMessage()
SendStep == \E v \in Inputs, id \in MsgIds : sendMessage(v, id)
NotOpen == wsRef = 0 \/ socks[wsRef].st # "OPEN"
NoFrameSent == \A s \in Slots : Len(socks'[s].c2s) <= Len(socks[s].c2s)
\* part of C34: sendMessage on a blank textarea changes nothing but leaves
\* the blank text where it is.
C34_BlankIsNoOp ==
  [][(SendStep /\ input' # "" /\ Trim(input') = "") =>
       UNCHANGED <<socks, wsRef, timers, error, messages, nextId, queueStatus, connected>>]_vars
\* part of C34: sendMessage with text while the socket is not open sends no
\* frame, appends nothing, keeps the text, sets the error and starts a
\* connection attempt.
C34_NotOpenSendsNothing ==
  [][(SendStep /\ Trim(input') # "" /\ NotOpen) =>
       /\ NoFrameSent /\ messages' = messages /\ input' \in Inputs
       /\ error' = "Not connected. Reconnecting..."
       /\ OpensSocket /\ wsRef' # 0 /\ socks'[wsRef'].st = "CONNECTING"]_vars
\* C34: sendMessage with text on an open socket sends exactly one message
\* frame, on the current socket, with an id that no entry of the list has,
\* and appends one user entry with that id and status sending.
C34_OpenSendsOneFresh ==
  [][(SendStep /\ input' = "" /\ ~NotOpen) =>
       /\ wsRef' = wsRef
       /\ \A s \in Slots : s # wsRef => Len(socks'[s].c2s) <= Len(socks[s].c2s)
       /\ Len(socks'[wsRef].c2s) = Len(socks[wsRef].c2s) + 1
       /\ LET f == Last(socks'[wsRef].c2s)
          IN /\ f.type = "message"
             /\ \A i \in 1..Len(messages) : messages[i].id # f.id
             /\ messages' = Append(messages, UserMsg(f.id))]_vars

\* ------------------------------------------------- claims: the retry timer
\* a step that must cancel the retry timer: a tree or connected frame is
\* handled, or a socket of the file explorer closes
CancelsRetry ==
  \/ \E s \in Slots : Handles(s, "tree") \/ Handles(s, "connected")
  \/ \E s \in Slots : ~socks[s].raw /\ socks[s].st \in {"CONNECTING", "OPEN", "CLOSING"}
                       /\ socks'[s].st = "CLOSED"
\* part of C35 that holds: the retry timer is cancelled when a tree or
\* connected frame arrives and when a socket closes.
C35_RetryCancelled == [][(kind = "files" /\ CancelsRetry) => ~retry']_vars
\* C35: no get_tree waits on an open socket of the file explorer that has
\* not completed its handshake. (The user neither refreshes nor does the
\* watcher report: the retry timer is the only sender of get_tree.)
C35_NoRetryBeforeHandshake ==
  \A s \in Slots :
     (kind = "files" /\ ~socks[s].raw /\ socks[s].st = "OPEN" /\ HasFrame(socks[s].c2s, GetTreeFrame))
       => Acked(s)

\* ------------------------------------------------------- claims: auth state
\* a step in which a sign-in request ends
SignInEnds == authPending' = authPending - 1
SignInSucceeds ==
  \E u \in AuthUsers, a \in Tokens, r \in Tokens :
     /\ state' = SignedIn(u, a, r)
     /\ localStorage' = [user |-> Stringify(u), access |-> a, refresh |-> r]
\* C36: isAuthenticated is true exactly when user and accessToken are both
\* non-null, from the state restored from storage on; a sign-in that ends
\* without success leaves user, tokens, isAuthenticated and the storage as
\* they were; and whenever the user or a stored key is cleared, the state is
\* the signed-out state and all three keys are gone.
C36_AuthConsistent ==
  /\ [](state.isAuthenticated <=> (state.user # Null /\ state.accessToken # Null))
  /\ [][(SignInEnds /\ ~SignInSucceeds) =>
          /\ state'.user = state.user /\ state'.accessToken = state.accessToken
          /\ state'.refreshToken = state.refreshToken
          /\ state'.isAuthenticated = state.isAuthenticated
          /\ localStorage' = localStorage]_vars
  /\ [][(\/ (state'.user = Null /\ state.user # Null)
          \/ (\E k \in {"user", "access", "refresh"} : localStorage'[k] = Null /\ localStorage[k] # Null)) =>
          (state' = SignedOutState /\ localStorage' = EmptyStorage)]_vars
\* two sign-ins were started and one of them has ended (in success for u2,
\* or in failure with u2 restored from storage); the other is still in flight
C36_Witness ==
  /\ kind = "auth" /\ state.isAuthenticated /\ state.user = "u2" /\ ~state.isLoading
  /\ localStorage = [user |-> Stringify("u2"), access |-> "t2", refresh |-> "t1"]
  /\ authPending = 1

====
